---- MODULE Spec2Model ----
(***************************************************************************)
(* A model of the qubicly client (src/qubicly/qubic.py, types.py): the     *)
(* frame header codec, must_recv, the response decoders, request           *)
(* serialisation and the public operations of QubicClient.                 *)
(*                                                                         *)
(* bytes are sequences over 0..255.  The connection is a byte stream       *)
(* `wire` written by the peer and a read offset `pos`; one step of the     *)
(* client is one conn.recv call together with the code that runs up to     *)
(* the next conn.recv call.                                                *)
(***************************************************************************)
EXTENDS Integers, Sequences, FiniteSets, TLC

(***************************************************************************)
(* Bounds of the model.                                                    *)
(***************************************************************************)
\* frames the peer writes in answer to one request
MaxFrames == 3
\* conn.recv calls of one must_recv that return fewer bytes than are available
MaxShort == 1
\* payload length of a frame of an unrelated type
JunkLen == 5
\* frames the peer writes in answer to the first request of a public operation
MaxReplies == 2

\* packets sent on a connection before the caller stops calling
MaxCalls == 2

(***************************************************************************)
(* Protocol constants (types.py:7-52).                                     *)
(***************************************************************************)
EXCHANGE_PUBLIC_PEERS == 0
BROADCAST_COMPUTORS == 2
QUORUM_TICK_RESPONSE == 3
QUORUM_TICK_REQUEST == 14
BROADCAST_FUTURE_TICK_DATA == 8
COMPUTORS_REQUEST == 11
TICK_DATA_REQUEST == 16
CURRENT_TICK_INFO_REQUEST == 27
CURRENT_TICK_INFO_RESPONSE == 28
TICK_TRANSACTIONS_REQUEST == 29
BALANCE_TYPE_REQUEST == 31
BALANCE_TYPE_RESPONSE == 32
END_RESPONSE == 35
ISSUED_ASSETS_REQUEST == 36
ISSUED_ASSETS_RESPONSE == 37
OWNED_ASSETS_REQUEST == 38
OWNED_ASSETS_RESPONSE == 39
POSSESSED_ASSETS_REQUEST == 40
POSSESSED_ASSETS_RESPONSE == 41
CONTRACT_FUNCTION_REQUEST == 42
CONTRACT_FUNCTION_RESPONSE == 43
SYSTEM_INFO_REQUEST == 46
SYSTEM_INFO_RESPONSE == 47
BROADCAST_TRANSACTION == 24
TX_STATUS_REQUEST == 201
TX_STATUS_RESPONSE == 202
REQUEST_ASSETS == 52
RESPOND_ASSETS == 53
NUMBER_OF_TRANSACTIONS_PER_TICK == 1024
NUMBER_OF_COMPUTORS == 676
ASSETS_DEPTH == 24
SPECTRUM_DEPTH == 24
\* the length of a frame header, read by RequestResponseHeader.decode
HEADER_SIZE == 8

(***************************************************************************)
(* bytes helpers.                                                          *)
(***************************************************************************)
Min(a, b) == IF a < b THEN a ELSE b

\* b[lo:hi] of Python, for 0 <= lo <= hi (clamped to the length of b)
Slice(b, lo, hi) == SubSeq(b, lo + 1, Min(hi, Len(b)))

\* bytes([v] * n)
Fill(n, v) == [i \in 1..n |-> v]

Zeros(n) == Fill(n, 0)

\* the unsigned value of little-endian bytes (struct.unpack '<B', '<H', '<I', '<Q')
RECURSIVE LE(_)
LE(b) == IF b = <<>> THEN 0 ELSE b[1] + 256 * LE(Tail(b))

\* the signed value of little-endian two's complement bytes ('<b', '<h', '<i', '<q')
SignedLE(b) ==
    IF b[Len(b)] >= 128 THEN -(1 + LE([i \in 1..Len(b) |-> 255 - b[i]])) ELSE LE(b)

\* struct.unpack('>I', b): a 32-bit value held as two 16-bit halves
BE32(b) == [hi |-> b[1] * 256 + b[2], lo |-> b[3] * 256 + b[4]]

(***************************************************************************)
(* RequestResponseHeader (types.py:64-112).  A header object is            *)
(* [size |-> <<b0, b1, b2>>, type |-> t, deja_vu |-> [hi, lo]].            *)
(***************************************************************************)
\* RequestResponseHeader.__init__
NewHeader == [size |-> <<0, 0, 0>>, type |-> 0, deja_vu |-> [hi |-> 0, lo |-> 0]]

\* RequestResponseHeader.get_size
get_size(h) == (h.size[1] + 256 * h.size[2] + 65536 * h.size[3]) % 16777216

\* the three assignments at the top of the loop of RequestResponseHeader.decode
ParseHeader(header_data) ==
    [size |-> Slice(header_data, 0, 3),
     type |-> header_data[4],
     deja_vu |-> BE32(Slice(header_data, 4, 8))]

\* the test of RequestResponseHeader.decode without its `self.type == 0`
IsUnrelated_ByTypeAlone(h, expected_type) == h.type # expected_type

\* the test of RequestResponseHeader.decode that sends a frame to the discard branch
IsUnrelated(h, expected_type) == h.type = 0 \/ h.type # expected_type

(***************************************************************************)
(* The response decoders (types.py), named by their class.                 *)
(***************************************************************************)
ListDecoders ==
    {"IssuedAssets", "OwnedAssets", "PossessedAssets", "AssetIssuances",
     "AssetOwnerships", "AssetPossessions", "Transactions", "QuorumVotes"}

SingleDecoders ==
    {"TickInfo", "SystemInfo", "AddressInfo", "TransactionStatus", "TickData",
     "Computors", "PublicPeers", "SmartContractData"}

Decoders == ListDecoders \cup SingleDecoders

\* the expected_type each decode passes to RequestResponseHeader.decode
ExpectedType(d) ==
    CASE d = "IssuedAssets" -> ISSUED_ASSETS_RESPONSE
      [] d = "OwnedAssets" -> OWNED_ASSETS_RESPONSE
      [] d = "PossessedAssets" -> POSSESSED_ASSETS_RESPONSE
      [] d \in {"AssetIssuances", "AssetOwnerships", "AssetPossessions"} -> RESPOND_ASSETS
      [] d = "Transactions" -> BROADCAST_TRANSACTION
      [] d = "QuorumVotes" -> QUORUM_TICK_RESPONSE
      [] d = "TickInfo" -> CURRENT_TICK_INFO_RESPONSE
      [] d = "SystemInfo" -> SYSTEM_INFO_RESPONSE
      [] d = "AddressInfo" -> BALANCE_TYPE_RESPONSE
      [] d = "TransactionStatus" -> TX_STATUS_RESPONSE
      [] d = "TickData" -> BROADCAST_FUTURE_TICK_DATA
      [] d = "Computors" -> BROADCAST_COMPUTORS
      [] d = "PublicPeers" -> EXCHANGE_PUBLIC_PEERS
      [] d = "SmartContractData" -> CONTRACT_FUNCTION_RESPONSE

\* Transaction.decode taking input_size from the two bytes before it (input_type)
TxInputSize_InputType(fixed_data) == LE(Slice(fixed_data, 76, 78))

\* Transaction.decode: input_size, unpacked from fixed_data[64:80]
TxInputSize(fixed_data) == LE(Slice(fixed_data, 78, 80))

\* TransactionStatus.decode: digest_size = tx_count * 32
TxStatusDigestSize(fixed_data) == LE(Slice(fixed_data, 8, 12)) * 32

\* The sizes of the must_recv calls one record of decoder d makes after its
\* header, in order; chunks are the reads already made, h the header.  A read
\* the code guards with `if size > 0` is listed with its size: skipped, it
\* leaves the empty value of the constructor, which is what must_recv returns
\* for a size that is not positive.
ReadSizes(d, chunks, h) ==
    CASE d = "IssuedAssets" -> <<48, 8, ASSETS_DEPTH * 32>>
      [] d = "OwnedAssets" -> <<48, 48, 8, ASSETS_DEPTH * 32>>
      [] d = "PossessedAssets" -> <<48, 48, 48, 8, ASSETS_DEPTH * 32>>
      [] d \in {"AssetIssuances", "AssetOwnerships", "AssetPossessions"} -> <<48, 4, 4>>
      [] d = "Transactions" ->
            <<80, IF Len(chunks) >= 1 THEN TxInputSize(chunks[1]) ELSE 0, 64>>
      [] d = "QuorumVotes" -> <<344>>
      [] d = "TickInfo" -> <<16>>
      [] d = "SystemInfo" -> <<128>>
      [] d = "AddressInfo" -> <<64, 8, SPECTRUM_DEPTH * 32>>
      [] d = "TransactionStatus" ->
            <<12, (NUMBER_OF_TRANSACTIONS_PER_TICK + 7) \div 8,
              IF Len(chunks) >= 1 THEN TxStatusDigestSize(chunks[1]) ELSE 0>>
      [] d = "TickData" ->
            <<16, 32, NUMBER_OF_TRANSACTIONS_PER_TICK * 32,
              NUMBER_OF_TRANSACTIONS_PER_TICK * 8, 64>>
      [] d = "Computors" -> <<2, NUMBER_OF_COMPUTORS * 32, 64>>
      [] d = "PublicPeers" -> <<16>>
      [] d = "SmartContractData" -> <<get_size(h) - 8>>

\* the reads made so far, followed by the empty result of every next read
\* whose size is not positive (must_recv returns b'' without a recv call)
RECURSIVE Settle(_, _, _)
Settle(d, chunks, h) ==
    LET sizes == ReadSizes(d, chunks, h)
    IN  IF Len(chunks) < Len(sizes) /\ sizes[Len(chunks) + 1] <= 0
        THEN Settle(d, Append(chunks, <<>>), h)
        ELSE chunks

\* every read of the record is made
RecordComplete(d, chunks, h) == Len(chunks) = Len(ReadSizes(d, chunks, h))

(***************************************************************************)
(* The values the decoders build from the bytes they read.                 *)
(***************************************************************************)
\* [data[i:i+32] for i in range(0, 32 * n, 32)]
Split32(data, n) == [i \in 1..n |-> Slice(data, 32 * (i - 1), 32 * i)]

\* IssuedAssetData.decode and AssetIssuanceData.decode: '<B7sb7s' after the key
IssuedAssetData(data) ==
    [public_key |-> Slice(data, 0, 32),
     type |-> data[33],
     name |-> Slice(data, 33, 40),
     number_of_decimal_places |-> SignedLE(Slice(data, 40, 41)),
     unit_of_measurement |-> Slice(data, 41, 48)]

\* the '<BsHIq' fields of OwnedAssetData, PossessedAssetData, AssetOwnershipData
\* and AssetPossessionData (which names the index ownership_index)
HolderData(data) ==
    [public_key |-> Slice(data, 0, 32),
     type |-> data[33],
     padding |-> Slice(data, 33, 34),
     managing_contract_index |-> LE(Slice(data, 34, 36)),
     issuance_index |-> LE(Slice(data, 36, 40)),
     number_of_units |-> SignedLE(Slice(data, 40, 48))]

\* AssetInfo.decode
AssetInfo(header_data, siblings_data) ==
    [tick |-> LE(Slice(header_data, 0, 4)),
     universe_index |-> LE(Slice(header_data, 4, 8)),
     siblings |-> Split32(siblings_data, ASSETS_DEPTH)]

\* Transaction.decode
Transaction(fixed_data, input, signature) ==
    [source_public_key |-> Slice(fixed_data, 0, 32),
     destination_public_key |-> Slice(fixed_data, 32, 64),
     amount |-> SignedLE(Slice(fixed_data, 64, 72)),
     tick |-> LE(Slice(fixed_data, 72, 76)),
     input_type |-> LE(Slice(fixed_data, 76, 78)),
     input_size |-> LE(Slice(fixed_data, 78, 80)),
     input |-> input,
     signature |-> signature]

\* struct.pack('<B' / '<H' / '<I', n): w little-endian bytes of n >= 0
RECURSIVE PackLE(_, _)
PackLE(n, w) == IF w = 0 THEN <<>> ELSE <<n % 256>> \o PackLE(n \div 256, w - 1)

\* struct.pack('<q', n) and the like: w bytes of two's complement
PackSignedLE(n, w) ==
    IF n >= 0 THEN PackLE(n, w)
    ELSE LET m == PackLE(-n - 1, w) IN [i \in 1..w |-> 255 - m[i]]

\* Transaction.encode; the input is appended whatever input_size says
TransactionEncode_KeysSwapped(tx) ==
    tx.destination_public_key \o tx.source_public_key
        \o PackSignedLE(tx.amount, 8) \o PackLE(tx.tick, 4)
        \o PackLE(tx.input_type, 2) \o PackLE(tx.input_size, 2)
        \o tx.input \o tx.signature

TransactionEncode(tx) ==
    tx.source_public_key \o tx.destination_public_key
        \o PackSignedLE(tx.amount, 8) \o PackLE(tx.tick, 4)
        \o PackLE(tx.input_type, 2) \o PackLE(tx.input_size, 2)
        \o tx.input \o tx.signature

\* Transaction.decode into a fresh Transaction, on a connection that delivers
\* data: 80 bytes, input_size bytes when that is positive, 64 bytes
TransactionDecode(data) ==
    LET fixed_data == Slice(data, 0, 80)
        n == TxInputSize(fixed_data)
        input == IF n > 0 THEN Slice(data, 80, 80 + n) ELSE <<>>
    IN  Transaction(fixed_data, input, Slice(data, 80 + n, 144 + n))

\* the '<HHIHBBBBBB' prefix of TickData.decode and QuorumTickVote.decode
TickStamp(data) ==
    [computor_index |-> LE(Slice(data, 0, 2)),
     epoch |-> LE(Slice(data, 2, 4)),
     tick |-> LE(Slice(data, 4, 8)),
     millisecond |-> LE(Slice(data, 8, 10)),
     second |-> data[11], minute |-> data[12], hour |-> data[13],
     day |-> data[14], month |-> data[15], year |-> data[16]]

\* QuorumTickVote.decode
QuorumTickVote(data) ==
    [stamp |-> TickStamp(Slice(data, 0, 16)),
     previous_resource_testing_digest |-> LE(Slice(data, 16, 20)),
     salted_resource_testing_digest |-> LE(Slice(data, 20, 24)),
     previous_transaction_body_digest |-> LE(Slice(data, 24, 28)),
     salted_transaction_body_digest |-> LE(Slice(data, 28, 32)),
     digests |-> Split32(Slice(data, 32, 288), 8),
     signature |-> Slice(data, 288, 352)]

\* TickInfo.decode: '<HHIHHI'
TickInfo(payload) ==
    [tick_duration |-> LE(Slice(payload, 0, 2)),
     epoch |-> LE(Slice(payload, 2, 4)),
     tick |-> LE(Slice(payload, 4, 8)),
     number_of_aligned_votes |-> LE(Slice(payload, 8, 10)),
     number_of_misaligned_votes |-> LE(Slice(payload, 10, 12)),
     initial_tick |-> LE(Slice(payload, 12, 16))]

\* SystemInfo.decode: '<hHIIIH6BII32siQQIQQQQQ'
SystemInfo(payload) ==
    [version |-> SignedLE(Slice(payload, 0, 2)),
     epoch |-> LE(Slice(payload, 2, 4)),
     tick |-> LE(Slice(payload, 4, 8)),
     initial_tick |-> LE(Slice(payload, 8, 12)),
     latest_created_tick |-> LE(Slice(payload, 12, 16)),
     initial_millisecond |-> LE(Slice(payload, 16, 18)),
     initial_second |-> payload[19], initial_minute |-> payload[20],
     initial_hour |-> payload[21], initial_day |-> payload[22],
     initial_month |-> payload[23], initial_year |-> payload[24],
     number_of_entities |-> LE(Slice(payload, 24, 28)),
     number_of_transactions |-> LE(Slice(payload, 28, 32)),
     random_mining_seed |-> Slice(payload, 32, 64),
     solution_threshold |-> SignedLE(Slice(payload, 64, 68)),
     total_spectrum_amount |-> LE(Slice(payload, 68, 76)),
     current_entity_balance_dust_threshold |-> LE(Slice(payload, 76, 84)),
     target_tick_vote_signature |-> LE(Slice(payload, 84, 88)),
     reserve |-> [i \in 1..5 |-> LE(Slice(payload, 80 + 8 * i, 88 + 8 * i))]]

\* AddressData.decode: the key, then '<qqIIII'
AddressData(data) ==
    [public_key |-> Slice(data, 0, 32),
     incoming_amount |-> SignedLE(Slice(data, 32, 40)),
     outgoing_amount |-> SignedLE(Slice(data, 40, 48)),
     number_of_incoming_transfers |-> LE(Slice(data, 48, 52)),
     number_of_outgoing_transfers |-> LE(Slice(data, 52, 56)),
     latest_incoming_transfer_tick |-> LE(Slice(data, 56, 60)),
     latest_outgoing_transfer_tick |-> LE(Slice(data, 60, 64))]

\* PublicPeers.decode: the four addresses that are not 0.0.0.0
PeerList(peers_data) ==
    LET ips == [i \in 1..4 |-> Slice(peers_data, 4 * (i - 1), 4 * i)]
    IN  SelectSeq(ips, LAMBDA ip : ip # Zeros(4))

\* The value one record of decoder d holds once its reads are made.
Build(d, c) ==
    CASE d = "IssuedAssets" ->
            [data |-> IssuedAssetData(c[1]), info |-> AssetInfo(c[2], c[3])]
      [] d = "OwnedAssets" ->
            [data |-> [own |-> HolderData(c[1]), issued_asset |-> IssuedAssetData(c[2])],
             info |-> AssetInfo(c[3], c[4])]
      [] d = "PossessedAssets" ->
            [data |-> [pos |-> HolderData(c[1]),
                       owned_asset |-> [own |-> HolderData(c[2]),
                                        issued_asset |-> IssuedAssetData(c[3])]],
             info |-> AssetInfo(c[4], c[5])]
      [] d = "AssetIssuances" ->
            [asset |-> IssuedAssetData(c[1]), tick |-> LE(c[2]), universe_index |-> LE(c[3])]
      [] d \in {"AssetOwnerships", "AssetPossessions"} ->
            [asset |-> HolderData(c[1]), tick |-> LE(c[2]), universe_index |-> LE(c[3])]
      [] d = "Transactions" -> Transaction(c[1], c[2], c[3])
      [] d = "QuorumVotes" -> QuorumTickVote(c[1])
      [] d = "TickInfo" -> TickInfo(c[1])
      [] d = "SystemInfo" -> SystemInfo(c[1])
      [] d = "AddressInfo" ->
            [address_data |-> AddressData(c[1]),
             tick |-> LE(Slice(c[2], 0, 4)),
             spectrum_index |-> SignedLE(Slice(c[2], 4, 8)),
             siblings |-> Split32(c[3], SPECTRUM_DEPTH)]
      [] d = "TransactionStatus" ->
            [current_tick_of_node |-> LE(Slice(c[1], 0, 4)),
             tick |-> LE(Slice(c[1], 4, 8)),
             tx_count |-> LE(Slice(c[1], 8, 12)),
             money_flew |-> c[2],
             transaction_digests |-> Split32(c[3], Len(c[3]) \div 32)]
      [] d = "TickData" ->
            [stamp |-> TickStamp(c[1]),
             timelock |-> c[2],
             transaction_digests |-> Split32(c[3], NUMBER_OF_TRANSACTIONS_PER_TICK),
             contract_fees |-> [i \in 1..NUMBER_OF_TRANSACTIONS_PER_TICK |->
                                   SignedLE(Slice(c[4], 8 * (i - 1), 8 * i))],
             signature |-> c[5]]
      [] d = "Computors" ->
            [epoch |-> LE(c[1]),
             pub_keys |-> Split32(c[2], NUMBER_OF_COMPUTORS),
             signature |-> c[3]]
      [] d = "PublicPeers" -> [peers |-> PeerList(c[1])]
      [] d = "SmartContractData" -> [data |-> c[1]]

\* The result object as its constructor leaves it: the empty list of a list
\* response; of a single-record response the fields that decode assigns.
Default(d) ==
    IF d \in ListDecoders THEN <<>>
    ELSE CASE d = "TickInfo" -> TickInfo(Zeros(16))
           [] d = "SystemInfo" ->
                 [SystemInfo(Zeros(128)) EXCEPT !.random_mining_seed = <<>>]
           [] d = "AddressInfo" ->
                 [address_data |-> AddressData(Zeros(64)), tick |-> 0,
                  spectrum_index |-> 0, siblings |-> <<>>]
           [] d = "TransactionStatus" ->
                 [current_tick_of_node |-> 0, tick |-> 0, tx_count |-> 0,
                  money_flew |-> <<>>, transaction_digests |-> <<>>]
           [] d = "TickData" ->
                 [stamp |-> TickStamp(Zeros(16)), timelock |-> Zeros(32),
                  transaction_digests |-> <<>>, contract_fees |-> <<>>,
                  signature |-> Zeros(64)]
           [] d = "Computors" ->
                 [epoch |-> 0, pub_keys |-> <<>>, signature |-> Zeros(64)]
           [] d = "PublicPeers" -> [peers |-> <<>>]
           [] d = "SmartContractData" -> [data |-> <<>>]

(***************************************************************************)
(* The peer.  A frame it writes is [type, size, dv, payload]: size is the  *)
(* value of the 3-byte size field, dv the 4 bytes of the correlation id.   *)
(***************************************************************************)
\* n as w little-endian bytes
ToLE(n, w) == [i \in 1..w |-> (n \div (256 ^ (i - 1))) % 256]

\* the bytes of a frame on the wire
FrameBytes(f) == ToLE(f.size, 3) \o <<f.type>> \o f.dv \o f.payload

RECURSIVE Concat(_)
Concat(ss) == IF ss = <<>> THEN <<>> ELSE Head(ss) \o Concat(Tail(ss))

\* n bytes, the first one tag
Marked(n, tag) == [i \in 1..n |-> IF i = 1 THEN tag ELSE 0]

\* b with the bytes at offset off replaced
Put(b, off, new) ==
    [i \in 1..Len(b) |-> IF i > off /\ i <= off + Len(new) THEN new[i - off] ELSE b[i]]

\* The first read of a record of decoder d on the wire: marked with tag, and
\* holding v in the field that the code reads as a number (a transaction's
\* input_size, a status's tx_count, the tick of a tick info).
FirstChunk(d, tag, v) ==
    LET n == ReadSizes(d, <<>>, [NewHeader EXCEPT !.size = ToLE(8 + v, 3)])[1]
        b == Marked(n, tag)
    IN  CASE d = "Transactions" -> Put(b, 78, ToLE(v, 2))
          [] d = "TransactionStatus" -> Put(b, 8, ToLE(v, 4))
          [] d = "TickInfo" -> Put(b, 4, ToLE(v, 4))
          [] OTHER -> b

\* A complete record of decoder d on the wire.
RecordImage(d, tag, v) ==
    LET first == FirstChunk(d, tag, v)
        sizes == ReadSizes(d, <<first>>, NewHeader)
    IN  first \o Concat([i \in 1..(Len(sizes) - 1) |-> Marked(sizes[i + 1], tag)])

\* the values of the number a record of decoder d carries
RecordVars(d) ==
    CASE d = "Transactions" -> {0, 3}
      [] d = "TransactionStatus" -> {0, 2}
      [] d = "TickInfo" -> {5}
      [] d = "SmartContractData" -> {0, 4}
      [] OTHER -> {0}

\* a message type that is neither t, nor 0, nor END_RESPONSE
OtherType(t) == IF t = BROADCAST_COMPUTORS THEN QUORUM_TICK_RESPONSE ELSE BROADCAST_COMPUTORS

RecordFrame(d, tag, v) ==
    LET img == RecordImage(d, tag, v)
    IN  [type |-> ExpectedType(d), size |-> HEADER_SIZE + Len(img),
         dv |-> <<tag, 2, 3, 4>>, payload |-> img]

EndFrame == [type |-> END_RESPONSE, size |-> HEADER_SIZE, dv |-> <<0, 0, 0, 0>>, payload |-> <<>>]

\* a frame of type 0, with no payload
ZeroTypeFrame ==
    [type |-> 0, size |-> HEADER_SIZE, dv |-> <<9, 9, 9, 9>>, payload |-> <<>>]

\* a frame of another type, with a payload
OtherFrame(d) ==
    [type |-> OtherType(ExpectedType(d)), size |-> HEADER_SIZE + JunkLen,
     dv |-> <<0, 0, 0, 7>>, payload |-> Fill(JunkLen, 170)]

\* END_RESPONSE frames whose size field is not 8: one that declares and
\* carries a payload, one that declares a payload and carries none, and one
\* whose size field is 0
EndFrames ==
    {EndFrame,
     [type |-> END_RESPONSE, size |-> HEADER_SIZE + JunkLen, dv |-> <<0, 0, 0, 0>>,
      payload |-> Fill(JunkLen, 187)],
     [type |-> END_RESPONSE, size |-> HEADER_SIZE + JunkLen, dv |-> <<1, 2, 3, 4>>,
      payload |-> <<>>],
     [type |-> END_RESPONSE, size |-> 0, dv |-> <<0, 0, 0, 0>>, payload |-> <<>>]}

\* the frames the peer may write while decoder d reads, as its tag-th frame
Menu(d, tag) ==
    {RecordFrame(d, tag, v) : v \in RecordVars(d)}
        \cup {EndFrame, ZeroTypeFrame, OtherFrame(d)}

(***************************************************************************)
(* Identity (types.py:1215-1271).  A string is the sequence of its         *)
(* character codes.  A 64-bit group value is held as nine base-256 digits, *)
(* least significant first: the ninth is not zero exactly when the value   *)
(* does not fit the 'Q' format of struct.pack_into.                        *)
(***************************************************************************)
\* limbs * 26 + carry, on as many base-256 digits as limbs has
RECURSIVE MulAdd26(_, _)
MulAdd26(limbs, carry) ==
    IF limbs = <<>> THEN <<>>
    ELSE LET v == Head(limbs) * 26 + carry
         IN  <<v % 256>> \o MulAdd26(Tail(limbs), v \div 256)

\* the groups of to_pub_key laid 15 characters apart, the last one reaching
\* into the four checksum characters
RECURSIVE GroupValue_Stride15(_, _, _, _)
GroupValue_Stride15(id_bytes, i, j, low) ==
    IF j = 14 THEN Zeros(9)
    ELSE MulAdd26(GroupValue_Stride15(id_bytes, i, j + 1, low), id_bytes[i * 15 + j + 1] - low)

\* val after the inner loop of to_pub_key has run for j = 13 down to j
RECURSIVE GroupValue(_, _, _, _)
GroupValue(id_bytes, i, j, low) ==
    IF j = 14 THEN Zeros(9)
    ELSE MulAdd26(GroupValue(id_bytes, i, j + 1, low), id_bytes[i * 14 + j + 1] - low)

\* to_pub_key taking a string of any length for a key of zeros
to_pub_key_AnyLength(identity, is_lower_case) ==
    LET low == IF is_lower_case THEN 97 ELSE 65
        high == IF is_lower_case THEN 122 ELSE 90
    IN  IF \E i \in 1..Len(identity) : ~(low <= identity[i] /\ identity[i] <= high)
        THEN [err |-> "ValueError: Invalid identity format", key |-> <<>>]
        ELSE [err |-> "none", key |-> Zeros(32)]

\* to_pub_key keeping the low 64 bits of a group where pack_into raises
to_pub_key_Wraps(identity, is_lower_case) ==
    LET low == IF is_lower_case THEN 97 ELSE 65
        high == IF is_lower_case THEN 122 ELSE 90
    IN  IF \E i \in 1..Len(identity) : ~(low <= identity[i] /\ identity[i] <= high)
        THEN [err |-> "ValueError: Invalid identity format", key |-> <<>>]
        ELSE IF Len(identity) # 60
        THEN [err |-> "ValueError: Invalid identity length", key |-> <<>>]
        ELSE [err |-> "none",
              key |-> Concat([i \in 1..4 |->
                                 SubSeq(GroupValue(identity, i - 1, 0, low), 1, 8)])]

\* Identity(identity).to_pub_key(is_lower_case): the key, or the exception
to_pub_key(identity, is_lower_case) ==
    LET low == IF is_lower_case THEN 97 ELSE 65
        high == IF is_lower_case THEN 122 ELSE 90
    IN  IF \E i \in 1..Len(identity) : ~(low <= identity[i] /\ identity[i] <= high)
        THEN [err |-> "ValueError: Invalid identity format", key |-> <<>>]
        ELSE IF Len(identity) # 60
        THEN [err |-> "ValueError: Invalid identity length", key |-> <<>>]
        ELSE LET val == [i \in 1..4 |-> GroupValue(identity, i - 1, 0, low)]
             IN  IF \E i \in 1..4 : val[i][9] # 0
                 THEN [err |-> "struct.error: argument out of range", key |-> <<>>]
                 ELSE [err |-> "none",
                       key |-> Concat([i \in 1..4 |-> SubSeq(val[i], 1, 8)])]

\* limbs // 26 and limbs % 26 on base-256 digits, least significant first;
\* rem is the remainder carried down from the digits above
RECURSIVE DivMod26(_, _)
DivMod26(limbs, rem) ==
    IF limbs = <<>> THEN [q |-> <<>>, r |-> rem]
    ELSE LET n == Len(limbs)
             v == rem * 256 + limbs[n]
             low == DivMod26(SubSeq(limbs, 1, n - 1), v % 26)
         IN  [q |-> Append(low.q, v \div 26), r |-> low.r]

\* the inner loop of from_pub_key: n times fragment % 26, fragment //= 26
RECURSIVE Base26(_, _)
Base26(fragment, n) ==
    IF n = 0 THEN <<>>
    ELSE LET d == DivMod26(fragment, 0) IN <<d.r>> \o Base26(d.q, n - 1)

\* the checksum characters, of the first three bytes of the digest
ChecksumChars(checksum, letter) ==
    LET checksum_int == (checksum[1] + 256 * checksum[2] + 65536 * checksum[3]) % 262144
    IN  [i \in 1..4 |-> ((checksum_int \div (26 ^ (i - 1))) % 26) + letter]

\* from_pub_key writing capital letters whatever the case asked for
from_pub_key_UpperOnly(pub_key, is_lower_case, checksum) ==
    Concat([i \in 1..4 |->
               [j \in 1..14 |-> Base26(Slice(pub_key, 8 * (i - 1), 8 * i), 14)[j] + 65]])
        \o ChecksumChars(checksum, 65)

\* Identity.from_pub_key(pub_key, is_lower_case): the 60 characters; checksum
\* stands for hashlib.sha256(pub_key).digest()[:3]
from_pub_key(pub_key, is_lower_case, checksum) ==
    LET letter == IF is_lower_case THEN 97 ELSE 65
    IN  Concat([i \in 1..4 |->
                   [j \in 1..14 |->
                       Base26(Slice(pub_key, 8 * (i - 1), 8 * i), 14)[j] + letter]])
            \o ChecksumChars(checksum, letter)

(***************************************************************************)
(* Request bodies (types.py:1274-1361) and request packets                 *)
(* (qubic.py:215-236, 253-268).                                            *)
(***************************************************************************)
ASSET_ISSUANCE_RECORDS == 0
ASSET_OWNERSHIP_RECORDS == 1
ASSET_POSSESSION_RECORDS == 2
ASSET_BY_UNIVERSE_INDEX == 3
FLAG_ANY_ISSUER == 2
FLAG_ANY_ASSET_NAME == 4
FLAG_ANY_OWNER == 8
FLAG_ANY_OWNER_CONTRACT == 16
FLAG_ANY_POSSESSOR == 32
FLAG_ANY_POSSESSOR_CONTRACT == 64

\* TickRequest.encode
TickRequest(tick) == ToLE(tick, 4)

\* TickTransactionsRequest.encode
TickTransactionsRequest(tick, transaction_flags) == ToLE(tick, 4) \o transaction_flags

\* QuorumRequest.encode
QuorumRequest(tick, vote_flags) == ToLE(tick, 4) \o vote_flags

\* RequestAssetsByFilter.encode
RequestAssetsByFilter(request_type, flags, ownership_managing_contract, possession_managing_contract, issuer, asset_name, owner, possessor) ==
    ToLE(request_type, 2) \o ToLE(flags, 2) \o ToLE(ownership_managing_contract, 2)
        \o ToLE(possession_managing_contract, 2) \o issuer \o asset_name \o owner \o possessor

\* RequestAssetsByUniverseIndex.encode
RequestAssetsByUniverseIndex(request_type, universe_index) ==
    ToLE(request_type, 2) \o ToLE(0, 2) \o ToLE(universe_index, 4) \o Zeros(104)

\* RequestContractFunction.encode
RequestContractFunction(rcf) ==
    ToLE(rcf.contract_index, 4) \o ToLE(rcf.input_type, 4) \o ToLE(rcf.input_size, 4)

\* the name padded to 8 bytes and never cut
PadName_Whole(name) == name \o Zeros(8 - Len(name))

\* name.encode()[:8].ljust(8, b'\x00')
PadName(name) == Slice(name, 0, 8) \o Zeros(8 - Len(Slice(name, 0, 8)))

\* QubicClient._get_flags
get_flags(owner_info, possessor_info) ==
    (IF owner_info.identity = <<>> THEN FLAG_ANY_OWNER ELSE 0)
        + (IF possessor_info.identity = <<>> THEN FLAG_ANY_POSSESSOR ELSE 0)
        + (IF owner_info.contract = 0 THEN FLAG_ANY_OWNER_CONTRACT ELSE 0)
        + (IF possessor_info.contract = 0 THEN FLAG_ANY_POSSESSOR_CONTRACT ELSE 0)

\* the key of a holder or issuer that may be absent: 32 zero bytes for ''
OptionalKey(identity) ==
    IF identity = <<>> THEN [err |-> "none", key |-> Zeros(32)]
    ELSE to_pub_key(identity, FALSE)

\* QubicClient._create_by_filter_request: the encoded request, or the exception
create_by_filter_request(request_type, asset_info, owner_info, possessor_info) ==
    LET issuer == OptionalKey(asset_info.identity)
        owner == OptionalKey(owner_info.identity)
        possessor == OptionalKey(possessor_info.identity)
    IN  IF issuer.err # "none" THEN [err |-> issuer.err, data |-> <<>>]
        ELSE IF asset_info.name = <<>>
        THEN [err |-> "ValueError: asset name is required", data |-> <<>>]
        ELSE IF owner.err # "none" THEN [err |-> owner.err, data |-> <<>>]
        ELSE IF possessor.err # "none" THEN [err |-> possessor.err, data |-> <<>>]
        ELSE [err |-> "none",
              data |-> RequestAssetsByFilter(request_type,
                           get_flags(owner_info, possessor_info),
                           owner_info.contract, possessor_info.contract,
                           issuer.key, PadName(asset_info.name), owner.key, possessor.key)]

\* QubicClient._create_asset_issuances_by_filter_request
create_asset_issuances_by_filter_request(issuer_identity, asset_name) ==
    LET issuer == OptionalKey(issuer_identity)
        flags == (IF issuer_identity = <<>> THEN FLAG_ANY_ISSUER ELSE 0)
                    + (IF asset_name = <<>> THEN FLAG_ANY_ASSET_NAME ELSE 0)
    IN  IF issuer.err # "none" THEN [err |-> issuer.err, data |-> <<>>]
        ELSE [err |-> "none",
              data |-> RequestAssetsByFilter(ASSET_ISSUANCE_RECORDS, flags, 0, 0,
                           issuer.key, PadName(asset_name), Zeros(32), Zeros(32))]

\* RequestResponseHeader.set_size
set_size(h, size) ==
    [h EXCEPT !.size = <<size % 256, (size \div 256) % 256, (size \div 65536) % 256>>]

\* RequestResponseHeader.zero_deja_vu
zero_deja_vu(h) == [h EXCEPT !.deja_vu = [hi |-> 0, lo |-> 0]]

\* RequestResponseHeader.randomize_deja_vu, r being what random.randint returned
randomize_deja_vu(h, r) ==
    [h EXCEPT !.deja_vu = IF r = [hi |-> 0, lo |-> 0] THEN [hi |-> 0, lo |-> 1] ELSE r]

\* values of random.randint(1, 0xFFFFFFFF): the two ends of the range
RandInts == {[hi |-> 0, lo |-> 1], [hi |-> 65535, lo |-> 65535]}

\* RequestResponseHeader.encode with deja_vu packed '>I', as decode unpacks it
encode_BigEndian(h) ==
    h.size \o <<h.type>>
        \o <<h.deja_vu.hi \div 256, h.deja_vu.hi % 256, h.deja_vu.lo \div 256, h.deja_vu.lo % 256>>

\* RequestResponseHeader.encode: deja_vu is packed '<I'
encode(h) ==
    h.size \o <<h.type>>
        \o <<h.deja_vu.lo % 256, h.deja_vu.lo \div 256, h.deja_vu.hi % 256, h.deja_vu.hi \div 256>>

\* _serialize_request with every request type given a random correlation id
serialize_request_AlwaysRandom(request_type, serialized_req_data, r) ==
    LET sized == set_size(NewHeader, 8 + Len(serialized_req_data))
        header == [randomize_deja_vu(sized, r) EXCEPT !.type = request_type]
    IN  encode(header) \o serialized_req_data

\* QubicClient._serialize_request: the encoded header of a request whose
\* encoded data is req_data_size bytes long
request_header(request_type, req_data_size, r) ==
    LET sized == set_size(NewHeader, 8 + req_data_size)
        marked == IF request_type = BROADCAST_TRANSACTION
                  THEN zero_deja_vu(sized)
                  ELSE randomize_deja_vu(sized, r)
        header == [marked EXCEPT !.type = request_type]
    IN  encode(header)

\* QubicClient._serialize_request, on the encoded request data
serialize_request(request_type, serialized_req_data, r) ==
    request_header(request_type, Len(serialized_req_data), r) \o serialized_req_data

\* QubicClient._serialize_smart_contract_request: the encoded header
contract_request_header(rcf_size, request_type, req_data_size, r) ==
    LET sized == set_size(NewHeader, 8 + rcf_size + req_data_size)
        header == [randomize_deja_vu(sized, r) EXCEPT !.type = request_type]
    IN  encode(header)

\* QubicClient._serialize_smart_contract_request
serialize_smart_contract_request(rcf, request_type, request_data, r) ==
    LET serialized_rcf == RequestContractFunction(rcf)
    IN  contract_request_header(Len(serialized_rcf), request_type, Len(request_data), r)
            \o serialized_rcf \o request_data

(***************************************************************************)
(* State.                                                                  *)
(***************************************************************************)
VARIABLES
    \* the connection
    wire,         \* every byte the peer has written to the connection
    pos,          \* how many of them conn.recv has returned
    peerClosed,   \* the peer has closed: conn.recv returns b'' once wire is read
    sockTimeout,  \* the timeout of the socket (conn.gettimeout())
    sent,         \* the packets conn.sendall has written, in order
    \* the client object and the call in progress
    timeout,      \* QubicClient.timeout
    pc,           \* "idle", "recv" (inside a decode), "returned", "raised"
    op,           \* the operation called
    arg,          \* its arguments, by name
    phase,        \* which request/response exchange of the operation is running
    old_timeout,  \* socket_timeout's saved value
    out,          \* what the call returned
    err,          \* the exception it raised
    \* the decode in progress
    dec,          \* the response class whose decode runs
    stage,        \* the must_recv call that is reading: "hdr", "skip", "body"
    want,         \* must_recv: size
    need,         \* must_recv: remaining
    data,         \* must_recv: data
    hdr,          \* the RequestResponseHeader of the decode
    rec,          \* the reads made so far for the record being decoded
    result,       \* the response object being filled
    \* history, read only by the properties
    frames,       \* the frames the peer wrote in the current exchange
    base,         \* the length of wire when the current exchange began
    start,        \* pos when the current exchange began
    mark,         \* pos when the current must_recv began
    lastRead,     \* size, result and mark of the last must_recv that returned
    accepted,     \* pos and header at each return of RequestResponseHeader.decode
    shorts,       \* conn.recv calls of this must_recv that returned less than available
    tmoAtCall     \* the socket timeout when the call began

connVars == <<wire, pos, peerClosed, sockTimeout, sent>>
callVars == <<timeout, pc, op, arg, phase, old_timeout, out, err>>
decVars == <<dec, stage, want, need, data, hdr, rec, result>>
histVars == <<frames, base, start, mark, lastRead, accepted, shorts, tmoAtCall>>
vars == <<connVars, callVars, decVars, histVars>>

DEFAULT_TIMEOUT == 30

\* the timeouts a caller gives the constructor or sets on client.conn
Timeouts == {DEFAULT_TIMEOUT, 5}

NoRead == [size |-> 0, data |-> <<>>, mark |-> 0]

\* QubicClient.__init__: the socket is created with the client's timeout
Init ==
    /\ wire = <<>> /\ pos = 0 /\ peerClosed = FALSE
    /\ timeout \in Timeouts /\ sockTimeout = timeout
    /\ sent = <<>>
    /\ pc = "idle" /\ op = "none" /\ arg = <<>> /\ phase = 0
    /\ old_timeout = 0 /\ out = "none" /\ err = "none"
    /\ dec = "none" /\ stage = "none" /\ want = 0 /\ need = 0 /\ data = <<>>
    /\ hdr = NewHeader /\ rec = <<>> /\ result = "none"
    /\ frames = <<>> /\ base = 0 /\ start = 0 /\ mark = 0 /\ lastRead = NoRead
    /\ accepted = <<>> /\ shorts = 0 /\ tmoAtCall = sockTimeout

(***************************************************************************)
(* The decode engine: the state a decode is in after a must_recv returned. *)
(* The value is [done, stage, want, hdr, rec, result, accepted]: done when *)
(* decode returns, else the next must_recv call (stage, want).             *)
(***************************************************************************)
\* AfterChunks with a list decoder putting each record in front of the list
AfterChunks_Prepend(d, h, chunks, res, acc) ==
    IF RecordComplete(d, chunks, h)
    THEN IF d \in ListDecoders
         THEN [done |-> FALSE, stage |-> "hdr", want |-> HEADER_SIZE, hdr |-> h,
               rec |-> <<>>, result |-> <<Build(d, chunks)>> \o res, accepted |-> acc]
         ELSE [done |-> TRUE, stage |-> "none", want |-> 0, hdr |-> h,
               rec |-> <<>>, result |-> Build(d, chunks), accepted |-> acc]
    ELSE [done |-> FALSE, stage |-> "body",
          want |-> ReadSizes(d, chunks, h)[Len(chunks) + 1], hdr |-> h,
          rec |-> chunks, result |-> res, accepted |-> acc]

\* AfterChunks with every decoder looping to the next header after a record
AfterChunks_Loop(d, h, chunks, res, acc) ==
    IF RecordComplete(d, chunks, h)
    THEN [done |-> FALSE, stage |-> "hdr", want |-> HEADER_SIZE, hdr |-> h,
          rec |-> <<>>,
          result |-> IF d \in ListDecoders THEN Append(res, Build(d, chunks))
                     ELSE Build(d, chunks),
          accepted |-> acc]
    ELSE [done |-> FALSE, stage |-> "body",
          want |-> ReadSizes(d, chunks, h)[Len(chunks) + 1], hdr |-> h,
          rec |-> chunks, result |-> res, accepted |-> acc]

\* the code after the reads made so far for one record (chunks)
AfterChunks(d, h, chunks, res, acc) ==
    IF RecordComplete(d, chunks, h)
    THEN IF d \in ListDecoders
         THEN \* append the record and loop to the next header
              [done |-> FALSE, stage |-> "hdr", want |-> HEADER_SIZE, hdr |-> h,
               rec |-> <<>>, result |-> Append(res, Build(d, chunks)), accepted |-> acc]
         ELSE [done |-> TRUE, stage |-> "none", want |-> 0, hdr |-> h,
               rec |-> <<>>, result |-> Build(d, chunks), accepted |-> acc]
    ELSE [done |-> FALSE, stage |-> "body",
          want |-> ReadSizes(d, chunks, h)[Len(chunks) + 1], hdr |-> h,
          rec |-> chunks, result |-> res, accepted |-> acc]

\* X.decode going on to read a record whatever the type of the header
AfterHeader_ReadsOn(d, h, res, acc) == AfterChunks(d, h, Settle(d, <<>>, h), res, acc)

\* the code of X.decode after header.decode(conn, expected_type) returned
AfterHeader(d, h, res, acc) ==
    IF h.type = END_RESPONSE
    THEN [done |-> TRUE, stage |-> "none", want |-> 0, hdr |-> h, rec |-> <<>>,
          result |-> res, accepted |-> acc]
    ELSE AfterChunks(d, h, Settle(d, <<>>, h), res, acc)

\* header_decode discarding get_size() bytes of an unrelated frame, not get_size() - 8
header_decode_SkipWholeSize(d, header_data, res, acc, at) ==
    LET h == ParseHeader(header_data)
    IN  IF h.type = END_RESPONSE
        THEN AfterHeader(d, h, res, Append(acc, [at |-> at, hdr |-> h]))
        ELSE IF IsUnrelated(h, ExpectedType(d))
             THEN [done |-> FALSE, stage |-> "skip", want |-> get_size(h),
                   hdr |-> h, rec |-> <<>>, result |-> res, accepted |-> acc]
             ELSE AfterHeader(d, h, res, Append(acc, [at |-> at, hdr |-> h]))

\* RequestResponseHeader.decode that also discards a frame of the expected
\* type when its correlation id is not zero
header_decode_MatchId(d, header_data, res, acc, at) ==
    LET h == ParseHeader(header_data)
    IN  IF h.type = END_RESPONSE
        THEN AfterHeader(d, h, res, Append(acc, [at |-> at, hdr |-> h]))
        ELSE IF IsUnrelated(h, ExpectedType(d)) \/ h.deja_vu # [hi |-> 0, lo |-> 0]
             THEN IF get_size(h) - 8 > 0
                  THEN [done |-> FALSE, stage |-> "skip", want |-> get_size(h) - 8,
                        hdr |-> h, rec |-> <<>>, result |-> res, accepted |-> acc]
                  ELSE [done |-> FALSE, stage |-> "hdr", want |-> HEADER_SIZE,
                        hdr |-> h, rec |-> <<>>, result |-> res, accepted |-> acc]
             ELSE AfterHeader(d, h, res, Append(acc, [at |-> at, hdr |-> h]))

\* RequestResponseHeader.decode after must_recv(conn, 8) returned header_data
header_decode(d, header_data, res, acc, at) ==
    LET h == ParseHeader(header_data)
    IN  IF h.type = END_RESPONSE
        THEN AfterHeader(d, h, res, Append(acc, [at |-> at, hdr |-> h]))
        ELSE IF IsUnrelated(h, ExpectedType(d))
             THEN IF get_size(h) - 8 > 0
                  THEN [done |-> FALSE, stage |-> "skip", want |-> get_size(h) - 8,
                        hdr |-> h, rec |-> <<>>, result |-> res, accepted |-> acc]
                  ELSE [done |-> FALSE, stage |-> "hdr", want |-> HEADER_SIZE,
                        hdr |-> h, rec |-> <<>>, result |-> res, accepted |-> acc]
             ELSE AfterHeader(d, h, res, Append(acc, [at |-> at, hdr |-> h]))

\* the state after the must_recv of the current stage returned bytes b, with
\* the stream then read up to offset at
AfterRead(d, st, h, chunks, res, acc, b, at) ==
    CASE st = "hdr" -> header_decode(d, b, res, acc, at)
      [] st = "skip" ->
            [done |-> FALSE, stage |-> "hdr", want |-> HEADER_SIZE, hdr |-> h,
             rec |-> <<>>, result |-> res, accepted |-> acc]
      [] st = "body" -> AfterChunks(d, h, Settle(d, Append(chunks, b), h), res, acc)

\* X.decode(conn) as it is entered on a fresh response object
Entered(d) ==
    [done |-> FALSE, stage |-> "hdr", want |-> HEADER_SIZE, hdr |-> NewHeader,
     rec |-> <<>>, result |-> Default(d), accepted |-> <<>>]

\* X.decode(conn) in state n, reading stream w from offset at: one must_recv
\* after the other, until the decode returns or w has fewer bytes left than
\* the next must_recv asks for
RECURSIVE DecodeRun(_, _, _, _)
DecodeRun(d, n, w, at) ==
    IF n.done \/ Len(w) - at < n.want THEN n
    ELSE DecodeRun(d,
                   AfterRead(d, n.stage, n.hdr, n.rec, n.result, n.accepted,
                             SubSeq(w, at + 1, at + n.want), at + n.want),
                   w, at + n.want)

(***************************************************************************)
(* Steps shared by every decode.                                           *)
(***************************************************************************)
\* the size of the one read _send_smart_contract_request makes itself
RAW_RECV_SIZE == 4096

\* X.decode(conn) is entered on a fresh response object: its first
\* statement is header.decode, whose first statement is must_recv(conn, 8)
EnterDecode(d, at) ==
    /\ dec' = d /\ result' = Default(d)
    /\ stage' = "hdr" /\ want' = HEADER_SIZE /\ need' = HEADER_SIZE /\ data' = <<>>
    /\ hdr' = NewHeader /\ rec' = <<>>
    /\ frames' = <<>> /\ base' = Len(wire) /\ start' = at /\ mark' = at
    /\ accepted' = <<>>

\* _send_smart_contract_request: dest is fresh and the code is at
\* self.conn.recv(4096)
EnterRaw(d, at) ==
    /\ dec' = d /\ result' = Default(d)
    /\ stage' = "raw" /\ want' = RAW_RECV_SIZE /\ need' = RAW_RECV_SIZE /\ data' = <<>>
    /\ hdr' = NewHeader /\ rec' = <<>>
    /\ frames' = <<>> /\ base' = Len(wire) /\ start' = at /\ mark' = at
    /\ accepted' = <<>>

\* the decode state is left as the finished decode n left it
LeaveDecode(n) ==
    /\ stage' = "none" /\ want' = 0 /\ need' = 0 /\ data' = <<>>
    /\ hdr' = n.hdr /\ rec' = <<>> /\ result' = n.result /\ accepted' = n.accepted
    /\ UNCHANGED <<dec, frames, base, start, mark>>

\* the decode state as it stands, when no decode has just finished
Standing == [hdr |-> hdr, result |-> result, accepted |-> accepted]

(***************************************************************************)
(* The public operations of QubicClient (qubic.py:28-202), as the steps    *)
(* they take between two exchanges: return a value, raise, or send a       *)
(* request and decode the response into dest.                              *)
(***************************************************************************)
NoRcf == [contract_index |-> 0, input_type |-> 0, input_size |-> 0]

ReturnStep(v) ==
    [kind |-> "return", value |-> v, err |-> "none", type |-> 0, data |-> <<>>,
     dest |-> "none", rcf |-> NoRcf]

RaiseStep(e) ==
    [kind |-> "raise", value |-> "none", err |-> e, type |-> 0, data |-> <<>>,
     dest |-> "none", rcf |-> NoRcf]

\* self._send_request(request_type, request_data, dest), request_data encoded
SendStep(request_type, request_data, dest) ==
    [kind |-> "send", value |-> "none", err |-> "none", type |-> request_type,
     data |-> request_data, dest |-> dest, rcf |-> NoRcf]

\* self._send_smart_contract_request(rcf, request_type, request_data, dest)
SendContractStep(rcf, request_type, request_data, dest) ==
    [kind |-> "send_sc", value |-> "none", err |-> "none", type |-> request_type,
     data |-> request_data, dest |-> dest, rcf |-> rcf]

\* Identity(id).to_pub_key(False), then the request that carries the key
IdentityRequest(id, request_type, dest) ==
    LET pub_key == to_pub_key(id, FALSE)
    IN  IF pub_key.err # "none" THEN RaiseStep(pub_key.err)
        ELSE SendStep(request_type, pub_key.key, dest)

\* a request built by one of the filter builders
FilterRequest(request, dest) ==
    IF request.err # "none" THEN RaiseStep(request.err)
    ELSE SendStep(REQUEST_ASSETS, request.data, dest)

NoHolder == [identity |-> <<>>, contract |-> 0]

\* the code of operation o with arguments a, from its first statement to its
\* first exchange
FirstStep(o, a) ==
    CASE o = "get_peers" -> ReturnStep("None")
      [] o = "get_issued_assets" -> IdentityRequest(a.id, ISSUED_ASSETS_REQUEST, "IssuedAssets")
      [] o = "get_possessed_assets" ->
            IdentityRequest(a.id, POSSESSED_ASSETS_REQUEST, "PossessedAssets")
      [] o = "get_owned_assets" -> IdentityRequest(a.id, OWNED_ASSETS_REQUEST, "OwnedAssets")
      [] o = "get_identity" -> IdentityRequest(a.id, BALANCE_TYPE_REQUEST, "AddressInfo")
      [] o \in {"get_tick_info", "get_tick_data", "get_tick_transactions", "get_quorum_votes"} ->
            SendStep(CURRENT_TICK_INFO_REQUEST, <<>>, "TickInfo")
      [] o = "get_system_info" -> SendStep(SYSTEM_INFO_REQUEST, <<>>, "SystemInfo")
      [] o = "get_tx_status" -> SendStep(TX_STATUS_REQUEST, ToLE(a.tick, 4), "TransactionStatus")
      [] o = "send_raw_transaction" -> SendStep(BROADCAST_TRANSACTION, a.raw_tx, "none")
      [] o = "get_computors" -> SendStep(COMPUTORS_REQUEST, <<>>, "Computors")
      [] o = "query_smart_contract" ->
            SendContractStep(a.rcf, CONTRACT_FUNCTION_REQUEST, a.request_data,
                             "SmartContractData")
      [] o = "get_asset_possessions_by_filter" ->
            FilterRequest(create_by_filter_request(ASSET_POSSESSION_RECORDS,
                              a.asset, a.owner, a.possessor), "AssetPossessions")
      [] o = "get_asset_ownerships_by_filter" ->
            FilterRequest(create_by_filter_request(ASSET_OWNERSHIP_RECORDS,
                              a.asset, a.owner, NoHolder), "AssetOwnerships")
      [] o = "get_asset_issuances_by_filter" ->
            FilterRequest(create_asset_issuances_by_filter_request(
                              a.asset.identity, a.asset.name), "AssetIssuances")
      [] o = "get_asset_issuances_by_universe_index" ->
            SendStep(REQUEST_ASSETS,
                     RequestAssetsByUniverseIndex(ASSET_BY_UNIVERSE_INDEX, a.index), "AssetIssuances")
      [] o = "get_asset_ownerships_by_universe_index" ->
            SendStep(REQUEST_ASSETS,
                     RequestAssetsByUniverseIndex(ASSET_BY_UNIVERSE_INDEX, a.index), "AssetOwnerships")
      [] o = "get_asset_possessions_by_universe_index" ->
            SendStep(REQUEST_ASSETS,
                     RequestAssetsByUniverseIndex(ASSET_BY_UNIVERSE_INDEX, a.index), "AssetPossessions")

\* AfterTickInfo without the comparison of the ticks
AfterTickInfo_Unchecked(o, tick_number, tick_info) ==
    IF o = "get_quorum_votes"
    THEN SendStep(QUORUM_TICK_REQUEST,
                  QuorumRequest(tick_number, Zeros((NUMBER_OF_COMPUTORS + 7) \div 8)),
                  "QuorumVotes")
    ELSE SendStep(TICK_DATA_REQUEST, TickRequest(tick_number), "TickData")

\* AfterTickInfo raising for the current tick too (`<=` for `<`)
AfterTickInfo_RejectsEqual(o, tick_number, tick_info) ==
    IF tick_info.tick <= tick_number
    THEN RaiseStep("ValueError: Requested tick is in the future")
    ELSE AfterTickInfo_Unchecked(o, tick_number, tick_info)

\* get_tick_data and get_quorum_votes after get_tick_info returned tick_info
AfterTickInfo(o, tick_number, tick_info) ==
    IF tick_info.tick < tick_number
    THEN RaiseStep("ValueError: Requested tick is in the future")
    ELSE IF o = "get_quorum_votes"
         THEN SendStep(QUORUM_TICK_REQUEST,
                       QuorumRequest(tick_number, Zeros((NUMBER_OF_COMPUTORS + 7) \div 8)),
                       "QuorumVotes")
         ELSE SendStep(TICK_DATA_REQUEST, TickRequest(tick_number), "TickData")

\* get_tick_transactions after get_tick_data returned tick_data.  A digest is
\* a bytes object and [0] * 32 a list, so `digest != [0] * 32` holds of every
\* digest and nr_tx is the number of digests.
AfterTickData(tick_number, tick_data) ==
    LET nr_tx == Len(tick_data.transaction_digests)
        transaction_flags ==
            [i \in 1..(NUMBER_OF_TRANSACTIONS_PER_TICK \div 8) |->
                IF i <= (nr_tx + 7) \div 8 THEN 0 ELSE 1]
    IN  IF nr_tx = 0 THEN ReturnStep(<<>>)
        ELSE SendStep(TICK_TRANSACTIONS_REQUEST,
                      TickTransactionsRequest(tick_number, transaction_flags),
                      "Transactions")

\* the code of operation o that follows its ph-th exchange, whose decode
\* left the response object v
NextStep(o, a, ph, v) ==
    CASE o \in {"get_tick_data", "get_quorum_votes", "get_tick_transactions"} /\ ph = 1 ->
            AfterTickInfo(o, a.tick_number, v)
      [] o = "get_tick_transactions" /\ ph = 2 -> AfterTickData(a.tick_number, v)
      [] OTHER -> ReturnStep(v)

\* _send_request calling sendall once more on the packet when it failed
Do_Retry(s, cur, n, at) ==
    CASE s.kind = "return" ->
            /\ pc' = "returned" /\ out' = s.value /\ err' = "none" /\ sockTimeout' = cur
            /\ LeaveDecode(n)
            /\ UNCHANGED <<sent, phase, old_timeout>>
      [] s.kind = "raise" ->
            /\ pc' = "raised" /\ out' = "none" /\ err' = s.err /\ sockTimeout' = cur
            /\ LeaveDecode(n)
            /\ UNCHANGED <<sent, phase, old_timeout>>
      [] s.kind \in {"send", "send_sc"} ->
            \E r \in RandInts, ok \in BOOLEAN :
               LET packet == IF s.kind = "send"
                             THEN serialize_request(s.type, s.data, r)
                             ELSE serialize_smart_contract_request(s.rcf, s.type, s.data, r)
               IN  /\ sent' = IF ok THEN Append(sent, packet)
                            ELSE Append(Append(sent, packet), packet)
                   /\ old_timeout' = cur
                   /\ phase' = phase + 1
                   /\ IF ~ok
                      THEN /\ pc' = "raised" /\ out' = "none"
                           /\ err' = "OSError: sendall failed"
                           /\ sockTimeout' = cur
                           /\ LeaveDecode(n)
                      ELSE IF s.dest = "none"
                      THEN /\ pc' = "returned" /\ out' = "None" /\ err' = "none"
                           /\ sockTimeout' = cur
                           /\ LeaveDecode(n)
                      ELSE /\ sockTimeout' = timeout
                           /\ UNCHANGED <<out, err>>
                           /\ IF s.kind = "send"
                              THEN pc' = "recv" /\ EnterDecode(s.dest, at)
                              ELSE pc' = "recv4096" /\ EnterRaw(s.dest, at)

\* Step s is taken with the socket timeout at cur; n is the decode state to
\* leave and at the stream offset.  A send is _send_request or
\* _send_smart_contract_request up to the first conn.recv call: the packet
\* is serialised, socket_timeout saves cur and installs self.timeout, sendall
\* is called and succeeds or raises, and leaving the with block restores cur.
Do(s, cur, n, at) ==
    CASE s.kind = "return" ->
            /\ pc' = "returned" /\ out' = s.value /\ err' = "none" /\ sockTimeout' = cur
            /\ LeaveDecode(n)
            /\ UNCHANGED <<sent, phase, old_timeout>>
      [] s.kind = "raise" ->
            /\ pc' = "raised" /\ out' = "none" /\ err' = s.err /\ sockTimeout' = cur
            /\ LeaveDecode(n)
            /\ UNCHANGED <<sent, phase, old_timeout>>
      [] s.kind \in {"send", "send_sc"} ->
            \E r \in RandInts, ok \in BOOLEAN :
               LET packet == IF s.kind = "send"
                             THEN serialize_request(s.type, s.data, r)
                             ELSE serialize_smart_contract_request(s.rcf, s.type, s.data, r)
               IN  /\ sent' = Append(sent, packet)
                   /\ old_timeout' = cur
                   /\ phase' = phase + 1
                   /\ IF ~ok
                      THEN /\ pc' = "raised" /\ out' = "none"
                           /\ err' = "OSError: sendall failed"
                           /\ sockTimeout' = cur
                           /\ LeaveDecode(n)
                      ELSE IF s.dest = "none"
                      THEN /\ pc' = "returned" /\ out' = "None" /\ err' = "none"
                           /\ sockTimeout' = cur
                           /\ LeaveDecode(n)
                      ELSE /\ sockTimeout' = timeout
                           /\ UNCHANGED <<out, err>>
                           /\ IF s.kind = "send"
                              THEN pc' = "recv" /\ EnterDecode(s.dest, at)
                              ELSE pc' = "recv4096" /\ EnterRaw(s.dest, at)

\* a call made while another call is waiting for its response
Call_Pipelined(o, a) ==
    /\ pc \in {"idle", "recv"}
    /\ op' = o /\ arg' = a /\ tmoAtCall' = sockTimeout
    /\ Do(FirstStep(o, a), sockTimeout, Standing, pos)
    /\ UNCHANGED <<wire, pos, peerClosed, timeout, lastRead, shorts>>

\* a public operation is called
Call(o, a) ==
    /\ pc = "idle"
    /\ op' = o /\ arg' = a /\ tmoAtCall' = sockTimeout
    /\ Do(FirstStep(o, a), sockTimeout, Standing, pos)
    /\ UNCHANGED <<wire, pos, peerClosed, timeout, lastRead, shorts>>

\* What follows the return of the decode that dest.decode(conn) or a direct
\* X().decode(conn) started; n is the finished decode, at the stream offset.
\* Inside _send_request the with block is left first, which restores the
\* timeout socket_timeout saved.
Continue(n, at) ==
    IF op = "decode"
    THEN Do(ReturnStep(n.result), sockTimeout, n, at)
    ELSE Do(NextStep(op, arg, phase, n.result), old_timeout, n, at)

\* must_recv putting each chunk in front of the ones before it
must_recv_Prepend(collected, chunk) == chunk \o collected

\* must_recv: data += chunk
must_recv(collected, chunk) == collected \o chunk

\* conn.recv(remaining) inside must_recv returns k bytes (types.py:1141-1145),
\* and the code runs on to the next conn.recv call
RecvStep(k, short) ==
    LET chunk == SubSeq(wire, pos + 1, pos + k)
        b == must_recv(data, chunk)
    IN  /\ pos' = pos + k
        /\ shorts' = IF k < need THEN shorts + short ELSE 0
        /\ UNCHANGED <<wire, peerClosed, timeout, op, arg, tmoAtCall>>
        /\ IF k < need
           THEN \* remaining > 0: the loop of must_recv calls conn.recv again
                /\ data' = b /\ need' = need - k
                /\ UNCHANGED <<sockTimeout, sent, pc, phase, old_timeout, out, err,
                               dec, stage, want, hdr, rec, result,
                               frames, base, start, mark, lastRead, accepted>>
           ELSE \* must_recv returns data
                LET n == AfterRead(dec, stage, hdr, rec, result, accepted, b, pos + k)
                IN  /\ lastRead' = [size |-> want, data |-> b, mark |-> mark]
                    /\ IF n.done
                       THEN Continue(n, pos + k)
                       ELSE /\ stage' = n.stage /\ want' = n.want /\ need' = n.want
                            /\ data' = <<>> /\ hdr' = n.hdr /\ rec' = n.rec
                            /\ result' = n.result /\ accepted' = n.accepted
                            /\ mark' = pos + k
                            /\ UNCHANGED <<sockTimeout, sent, pc, phase, old_timeout,
                                           out, err, dec, frames, base, start>>

\* conn.recv returns everything it can give, up to remaining
Recv ==
    /\ pc = "recv" /\ pos < Len(wire)
    /\ RecvStep(Min(need, Len(wire) - pos), 0)

\* conn.recv returns fewer bytes than are there: one, or all but one
RecvShort ==
    /\ pc = "recv" /\ pos < Len(wire) /\ shorts < MaxShort
    /\ LET full == Min(need, Len(wire) - pos)
       IN  \E k \in {1, full - 1} :
              /\ 1 <= k /\ k < full
              /\ RecvStep(k, 1)

\* socket_timeout without its finally clause
Restored_NoFinally == sockTimeout

\* the timeout that leaving socket_timeout restores (a direct decode runs
\* outside any with block)
Restored == IF op = "decode" THEN sockTimeout ELSE old_timeout

\* the call in progress raises e out of a conn.recv call
RecvRaises(e) ==
    /\ pc' = "raised" /\ err' = e /\ out' = "none" /\ sockTimeout' = Restored
    /\ UNCHANGED <<wire, pos, peerClosed, sent, timeout, op, arg, phase, old_timeout,
                   decVars, histVars>>

\* conn.recv returns b'' (the peer closed and nothing is left to read):
\* must_recv raises ValueError
RecvClosed ==
    /\ pc = "recv" /\ pos = Len(wire) /\ peerClosed
    /\ RecvRaises("ValueError: Connection closed while reading data")

\* conn.recv finds nothing to read until the socket timeout expires
RecvTimeout ==
    /\ pc \in {"recv", "recv4096"} /\ pos = Len(wire) /\ ~peerClosed
    /\ RecvRaises("TimeoutError: timed out")

\* _send_smart_contract_request: self.conn.recv(4096) returns, bytes or b'',
\* and dest.decode is given that bytes object as its connection; its first
\* must_recv calls conn.recv on it, which a bytes object does not have
RecvRaw ==
    /\ pc = "recv4096" /\ (pos < Len(wire) \/ peerClosed)
    /\ pos' = pos + Min(RAW_RECV_SIZE, Len(wire) - pos)
    /\ pc' = "raised" /\ out' = "none" /\ sockTimeout' = old_timeout
    /\ err' = "AttributeError: 'bytes' object has no attribute 'recv'"
    /\ UNCHANGED <<wire, peerClosed, sent, timeout, op, arg, phase, old_timeout,
                   decVars, histVars>>

(***************************************************************************)
(* The peer's steps.                                                       *)
(***************************************************************************)
\* how many frames the peer writes in the exchange that is running: of a
\* public operation, one less in each further exchange, and one at least
FrameBudget ==
    IF op = "decode" THEN MaxFrames
    ELSE IF MaxReplies - (phase - 1) > 1 THEN MaxReplies - (phase - 1) ELSE 1

\* The peer writes one more frame while the client waits for a response.  To
\* a public operation it writes when the client has read all that was written:
\* a conn.recv call is given no byte past the ones it asks for, so what the
\* peer writes ahead of the client shows in no value the client computes.
PeerSend ==
    /\ pc \in {"recv", "recv4096"} /\ ~peerClosed
    /\ Len(frames) < FrameBudget
    /\ op # "decode" => pos = Len(wire)
    /\ \E f \in Menu(dec, Len(frames) + 1) :
          /\ wire' = wire \o FrameBytes(f)
          /\ frames' = Append(frames, f)
    /\ UNCHANGED <<pos, peerClosed, sockTimeout, sent, callVars, decVars,
                   base, start, mark, lastRead, accepted, shorts, tmoAtCall>>

\* The connection breaks while a frame is on its way: the client is given the
\* first bytes of the frame, part of its header or its header and two bytes
\* more, and then the end of the stream.
PeerCut ==
    /\ pc = "recv" /\ ~peerClosed /\ pos = Len(wire)
    /\ Len(frames) < FrameBudget
    /\ \E f \in Menu(dec, Len(frames) + 1), k \in {3, HEADER_SIZE + 2} :
          /\ k < Len(FrameBytes(f))
          /\ wire' = wire \o SubSeq(FrameBytes(f), 1, k)
    /\ peerClosed' = TRUE
    /\ UNCHANGED <<pos, sockTimeout, sent, callVars, decVars, histVars>>

\* The peer closes.  Only a conn.recv that finds nothing to read observes it,
\* so the step is taken when wire is read to its end.
PeerClose ==
    /\ pc \in {"idle", "recv", "recv4096"} /\ ~peerClosed /\ pos = Len(wire)
    /\ peerClosed' = TRUE
    /\ UNCHANGED <<wire, pos, sockTimeout, sent, callVars, decVars, histVars>>

(***************************************************************************)
(* A response object decoded straight from a connection: X().decode(conn). *)
(***************************************************************************)
Decode ==
    /\ pc = "idle"
    /\ \E d \in Decoders :
          /\ op' = "decode" /\ arg' = <<d>>
          /\ EnterDecode(d, pos)
    /\ pc' = "recv" /\ phase' = 1
    /\ UNCHANGED <<connVars, timeout, old_timeout, out, err, lastRead, shorts, tmoAtCall>>

InitDecode == Init /\ timeout = DEFAULT_TIMEOUT

NextDecode ==
    Decode \/ PeerSend \/ PeerClose \/ Recv \/ RecvShort \/ RecvClosed \/ RecvTimeout

SpecDecode == InitDecode /\ [][NextDecode]_vars

(***************************************************************************)
(* The same decode, the peer writing END_RESPONSE frames of any size       *)
(* field among the others.                                                 *)
(***************************************************************************)
PeerSendEnd ==
    /\ pc = "recv" /\ ~peerClosed
    /\ Len(frames) < MaxFrames
    /\ \E f \in EndFrames \cup {OtherFrame(dec), ZeroTypeFrame, RecordFrame(dec, Len(frames) + 1, 0)} :
          /\ wire' = wire \o FrameBytes(f)
          /\ frames' = Append(frames, f)
    /\ UNCHANGED <<pos, peerClosed, sockTimeout, sent, callVars, decVars,
                   base, start, mark, lastRead, accepted, shorts, tmoAtCall>>

NextEnd == Decode \/ PeerSendEnd \/ PeerClose \/ Recv \/ RecvClosed \/ RecvTimeout

SpecEnd == InitDecode /\ [][NextEnd]_vars

(***************************************************************************)
(* The calls a caller makes on a QubicClient.                              *)
(***************************************************************************)
\* a well-formed identity, and strings that are not
ValidId == [i \in 1..60 |-> 65 + (i % 3)]
ShortId == SubSeq(ValidId, 1, 59)
LongId == ValidId \o <<65>>
BadCharId == [ValidId EXCEPT ![30] = 97]
\* sixty letters whose groups do not fit 64 bits
OverflowId == Fill(60, 90)

Identities == {ValidId, ShortId, LongId, BadCharId, OverflowId}

\* tick numbers: the tick a tick info record of the peer carries (5), one
\* after it, and the tick of a TickInfo left at its default
Ticks == {0, 5, 6}

RawTransactions == {<<>>, Fill(3, 7)}

UniverseIndexes == {1}

ContractQueries ==
    {[rcf |-> [contract_index |-> 1, input_type |-> 2, input_size |-> 0],
      request_data |-> <<>>],
     [rcf |-> [contract_index |-> 1, input_type |-> 2, input_size |-> 2],
      request_data |-> <<9, 9>>]}

\* asset_info and holder arguments of the by-filter operations; QX is a name
AssetInfos ==
    {[identity |-> ValidId, name |-> <<81, 88>>],
     [identity |-> <<>>, name |-> <<81, 88>>],
     [identity |-> ValidId, name |-> <<>>],
     [identity |-> BadCharId, name |-> <<81, 88>>]}

Holders ==
    {[identity |-> ValidId, contract |-> 1],
     [identity |-> <<>>, contract |-> 0],
     [identity |-> ShortId, contract |-> 0]}

get_peers == Call("get_peers", <<>>)

get_issued_assets == \E id \in Identities : Call("get_issued_assets", [id |-> id])

get_possessed_assets == \E id \in Identities : Call("get_possessed_assets", [id |-> id])

get_owned_assets == \E id \in Identities : Call("get_owned_assets", [id |-> id])

get_identity == \E id \in Identities : Call("get_identity", [id |-> id])

get_tick_info == Call("get_tick_info", <<>>)

get_system_info == Call("get_system_info", <<>>)

get_tx_status == \E tick \in {5} : Call("get_tx_status", [tick |-> tick])

get_tick_data == \E tick_number \in Ticks : Call("get_tick_data", [tick_number |-> tick_number])

get_tick_transactions == \E tick_number \in Ticks : Call("get_tick_transactions", [tick_number |-> tick_number])

send_raw_transaction == \E raw_tx \in RawTransactions : Call("send_raw_transaction", [raw_tx |-> raw_tx])

get_quorum_votes == \E tick_number \in Ticks : Call("get_quorum_votes", [tick_number |-> tick_number])

get_computors == Call("get_computors", <<>>)

query_smart_contract == \E q \in ContractQueries : Call("query_smart_contract", q)

get_asset_possessions_by_filter ==
    \E asset \in AssetInfos, holder \in Holders :
        Call("get_asset_possessions_by_filter",
             [asset |-> asset, owner |-> holder, possessor |-> holder])

get_asset_ownerships_by_filter ==
    \E asset \in AssetInfos, holder \in Holders :
        Call("get_asset_ownerships_by_filter", [asset |-> asset, owner |-> holder])

get_asset_issuances_by_filter ==
    \E asset \in AssetInfos :
        Call("get_asset_issuances_by_filter", [asset |-> asset])

get_asset_issuances_by_universe_index ==
    \E index \in UniverseIndexes : Call("get_asset_issuances_by_universe_index", [index |-> index])

get_asset_ownerships_by_universe_index ==
    \E index \in UniverseIndexes : Call("get_asset_ownerships_by_universe_index", [index |-> index])

get_asset_possessions_by_universe_index ==
    \E index \in UniverseIndexes : Call("get_asset_possessions_by_universe_index", [index |-> index])

\* the caller assigns client.timeout between construction and the call
SetTimeout ==
    /\ pc = "idle" /\ timeout = sockTimeout
    /\ \E t \in Timeouts \ {timeout} : timeout' = t
    /\ UNCHANGED <<connVars, pc, op, arg, phase, old_timeout, out, err, decVars, histVars>>

PublicCall ==
    \/ get_peers
    \/ get_issued_assets
    \/ get_possessed_assets
    \/ get_owned_assets
    \/ get_identity
    \/ get_tick_info
    \/ get_system_info
    \/ get_tx_status
    \/ get_tick_data
    \/ get_tick_transactions
    \/ send_raw_transaction
    \/ get_quorum_votes
    \/ get_computors
    \/ query_smart_contract
    \/ get_asset_possessions_by_filter
    \/ get_asset_ownerships_by_filter
    \/ get_asset_issuances_by_filter
    \/ get_asset_issuances_by_universe_index
    \/ get_asset_ownerships_by_universe_index
    \/ get_asset_possessions_by_universe_index

(***************************************************************************)
(* One public call on a client, the peer answering with whole frames.      *)
(***************************************************************************)
Next ==
    PublicCall \/ PeerSend \/ PeerClose \/ Recv \/ RecvClosed \/ RecvTimeout \/ RecvRaw

Spec == InitDecode /\ [][Next]_vars

(***************************************************************************)
(* The same, with the caller changing client.timeout before the call.      *)
(***************************************************************************)
NextTimeout == SetTimeout \/ Next

SpecTimeout == InitDecode /\ [][NextTimeout]_vars

(***************************************************************************)
(* The operations without arguments, conn.recv returning short and the     *)
(* connection breaking inside a frame.                                     *)
(***************************************************************************)
NextRecv ==
    \/ get_tick_info
    \/ get_system_info
    \/ get_computors
    \/ PeerSend
    \/ PeerCut
    \/ PeerClose
    \/ Recv
    \/ RecvShort
    \/ RecvClosed
    \/ RecvTimeout

SpecRecv == InitDecode /\ [][NextRecv]_vars

(***************************************************************************)
(* One public call on a response stream that is finite and then closed:    *)
(* a conn.recv call returns when there are bytes to read or the peer has   *)
(* closed, and the peer, having written what it writes, closes.            *)
(***************************************************************************)
\* every step of Recv, RecvRaw, RecvClosed and PeerClose changes one of these
progressVars == <<pos, pc, peerClosed>>

ClosingStream ==
    /\ WF_progressVars(Recv) /\ WF_progressVars(RecvRaw) /\ WF_progressVars(RecvClosed)
    /\ WF_progressVars(PeerClose)

\* the public operations but the two that read a tick's data
NextClosing ==
    \/ get_peers
    \/ get_issued_assets
    \/ get_possessed_assets
    \/ get_owned_assets
    \/ get_identity
    \/ get_tick_info
    \/ get_system_info
    \/ get_tx_status
    \/ send_raw_transaction
    \/ get_quorum_votes
    \/ get_computors
    \/ query_smart_contract
    \/ get_asset_possessions_by_filter
    \/ get_asset_ownerships_by_filter
    \/ get_asset_issuances_by_filter
    \/ get_asset_issuances_by_universe_index
    \/ get_asset_ownerships_by_universe_index
    \/ get_asset_possessions_by_universe_index
    \/ PeerSend
    \/ PeerClose
    \/ Recv
    \/ RecvClosed
    \/ RecvTimeout
    \/ RecvRaw

SpecClosing == InitDecode /\ [][NextClosing]_vars /\ ClosingStream

(***************************************************************************)
(* A sequence of public calls on one client: the caller calls again after  *)
(* a call returned or raised, on the same connection.                      *)
(***************************************************************************)
\* The call is over: its result or exception is with the caller, and its
\* response object and the locals of its decode are gone.  The connection
\* stays as the call left it.
NextCall ==
    /\ pc \in {"returned", "raised"} /\ Len(sent) < MaxCalls
    /\ pc' = "idle" /\ phase' = 0 /\ out' = "none" /\ err' = "none"
    /\ dec' = "none" /\ stage' = "none" /\ want' = 0 /\ need' = 0 /\ data' = <<>>
    /\ hdr' = NewHeader /\ rec' = <<>> /\ result' = "none"
    /\ frames' = <<>> /\ base' = Len(wire) /\ start' = pos /\ mark' = pos
    /\ lastRead' = NoRead /\ accepted' = <<>> /\ shorts' = 0
    /\ UNCHANGED <<connVars, timeout, op, arg, old_timeout, tmoAtCall>>

\* the peer answers a request with one frame
PeerReply == frames = <<>> /\ PeerSend

NextSeq ==
    \/ get_tick_info
    \/ get_quorum_votes
    \/ send_raw_transaction
    \/ NextCall
    \/ PeerReply
    \/ PeerClose
    \/ Recv
    \/ RecvClosed
    \/ RecvTimeout

SpecSeq == InitDecode /\ [][NextSeq]_vars

(***************************************************************************)
(* One public call, the peer answering each request with a response that   *)
(* may carry a frame after its first one.                                  *)
(***************************************************************************)
\* The peer answers the request of the running exchange: a record or a
\* terminator, alone or followed by a terminator or by a frame of another
\* type.  It answers whatever the client has read so far.
PeerAnswer ==
    /\ pc = "recv" /\ ~peerClosed /\ frames = <<>>
    /\ \E f \in {RecordFrame(dec, Len(sent), v) : v \in RecordVars(dec)} \cup {EndFrame},
          trail \in {<<>>, <<EndFrame>>, <<OtherFrame(dec)>>} :
          /\ wire' = wire \o FrameBytes(f) \o Concat([i \in 1..Len(trail) |-> FrameBytes(trail[i])])
          /\ frames' = <<f>> \o trail
    /\ UNCHANGED <<pos, peerClosed, sockTimeout, sent, callVars, decVars,
                   base, start, mark, lastRead, accepted, shorts, tmoAtCall>>

NextStale ==
    \/ get_tick_info
    \/ get_system_info
    \/ get_computors
    \/ get_tick_data
    \/ PeerAnswer
    \/ PeerClose
    \/ Recv
    \/ RecvClosed
    \/ RecvTimeout

SpecStale == InitDecode /\ [][NextStale]_vars

(***************************************************************************)
(* The codecs applied on their own: a function of the library is called    *)
(* on an argument and returns a value or raises.                           *)
(***************************************************************************)
\* function o called on a returns v
Apply(o, a, v) ==
    /\ pc = "idle"
    /\ op' = o /\ arg' = a /\ out' = v /\ err' = "none" /\ pc' = "returned"
    /\ UNCHANGED <<connVars, timeout, phase, old_timeout, decVars, histVars>>

\* function o called on a raises e
ApplyRaises(o, a, e) ==
    /\ pc = "idle"
    /\ op' = o /\ arg' = a /\ out' = "none" /\ err' = e /\ pc' = "raised"
    /\ UNCHANGED <<connVars, timeout, phase, old_timeout, decVars, histVars>>

\* lengths of request data: of the requests the client builds (0, 4, 32,
\* 112), and around the largest a 24-bit size field can count
PayloadSizes == {0, 4, 32, 112, 16777206, 16777207, 16777208, 16777209}

\* the header _serialize_request builds for request data of a given length
SerializeHeader ==
    \E t \in {BROADCAST_TRANSACTION, TICK_DATA_REQUEST, REQUEST_ASSETS},
       n \in PayloadSizes, r \in RandInts :
        Apply("_serialize_request", [type |-> t, size |-> n], request_header(t, n, r))

\* the header _serialize_smart_contract_request builds; rcf.encode() is 12 bytes
SerializeContractHeader ==
    \E n \in PayloadSizes, r \in RandInts :
        Apply("_serialize_smart_contract_request",
              [type |-> CONTRACT_FUNCTION_REQUEST, size |-> 12 + n],
              contract_request_header(12, CONTRACT_FUNCTION_REQUEST, n, r))

\* the largest input a 16-bit input_size can count
MaxInput == 65535

\* transaction values: input_size is the length of the input
TransactionValues ==
    {[source_public_key |-> Fill(32, 1),
      destination_public_key |-> Fill(32, 2),
      amount |-> a, tick |-> t, input_type |-> it,
      input_size |-> Len(inp), input |-> inp,
      signature |-> Fill(64, 3)] :
        a \in {0, -1, 2147483647, -2147483647}, t \in {0, 2147483647},
        it \in {0, 2}, inp \in {<<>>, <<9, 8>>, Fill(MaxInput, 7)}}

\* tx.encode(), then Transaction().decode(conn) on those bytes
TransactionRoundTrip ==
    \E tx \in TransactionValues :
        Apply("Transaction.encode", tx,
              LET encoded == TransactionEncode(tx)
              IN  [size |-> Len(encoded), decoded |-> TransactionDecode(encoded)])

\* 32-byte public keys: the least and the greatest fragments, and mixed ones
PublicKeys ==
    {Zeros(32), Fill(32, 255), [i \in 1..32 |-> (i * 37) % 256],
     [i \in 1..32 |-> IF i % 8 = 0 THEN 255 ELSE 0]}

\* the first three bytes a digest can have
Digests == {<<0, 0, 0>>, <<255, 255, 255>>, <<1, 2, 3>>}

\* from_pub_key(pub_key, case), then to_pub_key(case) of the identity; the
\* digest of the placeholder hash is any three bytes
IdentityRoundTrip ==
    \E k \in PublicKeys, c \in BOOLEAN, h \in Digests :
        Apply("Identity.from_pub_key", [pub_key |-> k, is_lower_case |-> c],
              LET identity == from_pub_key(k, c, h)
              IN  [identity |-> identity, back |-> to_pub_key(identity, c)])

\* asset filters: issuer given or '', name given (short, or longer than the
\* 8 bytes of the field) or ''
FilterAssets ==
    [identity : {ValidId, <<>>},
     name : {<<81, 88>>, <<>>, <<81, 85, 66, 73, 67, 76, 89, 88, 90>>}]

\* holder filters: identity given or '', managing contract zero or not
FilterHolders == [identity : {ValidId, <<>>}, contract : {0, 1}]

\* function o called on a returns the request it built, or raises
ApplyBuilder(o, a, request) ==
    IF request.err # "none" THEN ApplyRaises(o, a, request.err)
    ELSE Apply(o, a, request.data)

\* _create_asset_issuances_by_filter_request(issuer_identity, asset_name)
CreateIssuancesFilter ==
    \E asset \in FilterAssets :
        ApplyBuilder("_create_asset_issuances_by_filter_request",
                     [asset |-> asset, owner |-> NoHolder, possessor |-> NoHolder],
                     create_asset_issuances_by_filter_request(asset.identity, asset.name))

\* _create_get_asset_ownerships_by_filter_request(asset_info, owner_info)
CreateOwnershipsFilter ==
    \E asset \in FilterAssets, owner \in FilterHolders :
        ApplyBuilder("_create_get_asset_ownerships_by_filter_request",
                     [asset |-> asset, owner |-> owner, possessor |-> NoHolder],
                     create_by_filter_request(ASSET_OWNERSHIP_RECORDS, asset, owner, NoHolder))

\* _create_get_asset_possessions_by_filter_request(asset_info, owner_info,
\* possessor_info)
CreatePossessionsFilter ==
    \E asset \in FilterAssets, owner \in FilterHolders, possessor \in FilterHolders :
        ApplyBuilder("_create_get_asset_possessions_by_filter_request",
                     [asset |-> asset, owner |-> owner, possessor |-> possessor],
                     create_by_filter_request(ASSET_POSSESSION_RECORDS, asset, owner,
                                              possessor))

\* RequestAssetsByUniverseIndex(ASSET_BY_UNIVERSE_INDEX, index).encode(), the
\* request _get_asset_by_universe_index sends
CreateUniverseIndexRequest ==
    \E index \in {0, 1, 65536, 2147483647} :
        Apply("RequestAssetsByUniverseIndex.encode", [index |-> index],
              RequestAssetsByUniverseIndex(ASSET_BY_UNIVERSE_INDEX, index))

\* the identity of lower-case letters that ValidId is in capitals
LowerId == [i \in 1..60 |-> ValidId[i] + 32]

\* sixty letters whose first group is value v, given as base-256 digits
GroupId(v) == [i \in 1..60 |-> IF i <= 14 THEN 65 + Base26(v, 14)[i] ELSE 65]

\* strings given to to_pub_key: well-formed in either case, of a wrong
\* length (the empty string too), with a character next to the letter range
\* or of the other case, and with a group of value 2^64 - 1, 2^64 and 26^14 - 1
IdentityStrings ==
    {ValidId, LowerId, ShortId, LongId, <<>>, BadCharId, OverflowId,
     [ValidId EXCEPT ![1] = 64], [ValidId EXCEPT ![60] = 91],
     [LowerId EXCEPT ![57] = 96], [LowerId EXCEPT ![14] = 123],
     SubSeq(BadCharId, 1, 40),
     GroupId(Fill(8, 255)), GroupId(Zeros(8) \o <<1>>)}

\* Identity(identity).to_pub_key(is_lower_case)
IdentityToPubKey ==
    \E identity \in IdentityStrings, c \in BOOLEAN :
        LET pub_key == to_pub_key(identity, c)
            a == [identity |-> identity, is_lower_case |-> c]
        IN  IF pub_key.err # "none" THEN ApplyRaises("Identity.to_pub_key", a, pub_key.err)
            ELSE Apply("Identity.to_pub_key", a, pub_key.key)

\* the last four characters of an identity: capitals, and small letters
ChecksumTails == {<<65, 65, 65, 65>>, <<90, 90, 90, 90>>, <<81, 66, 90, 65>>, <<97, 122, 97, 122>>}

\* sixty-character strings whose first 56 characters are taken as they are
IdentityStems ==
    {ValidId, LowerId, OverflowId, GroupId(Fill(8, 255)), GroupId(Zeros(8) \o <<1>>)}

\* to_pub_key called on two identities that have their first 56 characters
\* in common, each outcome (the key, or the exception) kept
IdentityToPubKeyTwice ==
    \E stem \in IdentityStems, t1 \in ChecksumTails, t2 \in ChecksumTails, c \in BOOLEAN :
        LET first == SubSeq(stem, 1, 56) \o t1
            second == SubSeq(stem, 1, 56) \o t2
        IN  Apply("Identity.to_pub_key, twice",
                  [first |-> first, second |-> second, is_lower_case |-> c],
                  [first |-> to_pub_key(first, c), second |-> to_pub_key(second, c)])

\* sizes a header is given: none, a header alone, one that fills each of the
\* three size bytes differently, the largest, and one set_size truncates
HeaderSizes == {0, 8, 66051, 16777215, 16777216 + 515}

\* correlation ids: zero, the ends of randint's range, and ids whose four
\* bytes differ
DejaVus == {[hi |-> 0, lo |-> 0], [hi |-> 258, lo |-> 772], [hi |-> 43981, lo |-> 4660]} \cup RandInts

\* header.encode() of a header, and the header object that
\* RequestResponseHeader.decode fills from those bytes
HeaderRoundTrip ==
    \E n \in HeaderSizes, t \in {0, TICK_DATA_REQUEST, END_RESPONSE, 255}, dv \in DejaVus :
        LET h == [set_size(NewHeader, n) EXCEPT !.type = t, !.deja_vu = dv]
            header_data == encode(h)
        IN  Apply("RequestResponseHeader.encode", h,
                  [encoded |-> header_data, decoded |-> ParseHeader(header_data)])

NextCodec ==
    \/ HeaderRoundTrip
    \/ IdentityToPubKeyTwice
    \/ SerializeHeader
    \/ SerializeContractHeader
    \/ TransactionRoundTrip
    \/ IdentityRoundTrip
    \/ CreateIssuancesFilter
    \/ CreateOwnershipsFilter
    \/ CreatePossessionsFilter
    \/ CreateUniverseIndexRequest
    \/ IdentityToPubKey

SpecCodec == InitDecode /\ [][NextCodec]_vars

(***************************************************************************)
(* What the properties say about the frames the peer wrote.                *)
(***************************************************************************)
FrameLen(f) == HEADER_SIZE + Len(f.payload)

RECURSIVE FramesLen(_)
FramesLen(fs) == IF fs = <<>> THEN 0 ELSE FrameLen(Head(fs)) + FramesLen(Tail(fs))

\* the offset in wire at which the i-th frame of the current exchange begins
FrameAt(i) == base + FramesLen(SubSeq(frames, 1, i - 1))

\* the header object that holds the header of frame f
HeaderOf(f) == [size |-> ToLE(f.size, 3), type |-> f.type, deja_vu |-> BE32(f.dv)]

\* payload p cut into the reads of one record of decoder d
RECURSIVE CutRecord(_, _, _)
CutRecord(d, p, chunks) ==
    LET sizes == ReadSizes(d, chunks, NewHeader)
    IN  IF Len(chunks) = Len(sizes) THEN chunks
        ELSE CutRecord(d, Slice(p, sizes[Len(chunks) + 1], Len(p)),
                       Append(chunks, Slice(p, 0, sizes[Len(chunks) + 1])))

\* the length of the record of decoder d that payload p begins with
RecordLen(d, p) == Len(Concat(CutRecord(d, p, <<>>)))

\* f is a frame of the expected type of d that carries one complete record
IsRecordFrame(d, f) ==
    /\ f.type = ExpectedType(d)
    /\ Len(f.payload) >= ReadSizes(d, <<>>, NewHeader)[1]
    /\ Len(f.payload) = RecordLen(d, f.payload)

\* f is a frame of a type other than expected and END_RESPONSE, with the
\* payload its size field declares
IsUnrelatedFrame(f, expected_type) ==
    /\ f.type \notin {expected_type, END_RESPONSE}
    /\ f.size = FrameLen(f)

IsEndFrame(f) == f.type = END_RESPONSE /\ f.payload = <<>>

\* the exchange began with nothing unread on the connection
FreshStream == start = base

(***************************************************************************)
(* C1.  A list decoder given N complete record frames of its type and then *)
(* an END_RESPONSE frame reads all of them, returns, and its list holds    *)
(* exactly the N records, in the order of the frames (none for N = 0).     *)
(***************************************************************************)
RecordsThenEnd ==
    /\ dec \in ListDecoders /\ FreshStream
    /\ frames # <<>> /\ IsEndFrame(frames[Len(frames)])
    /\ \A i \in 1..(Len(frames) - 1) : IsRecordFrame(dec, frames[i])

ExpectedList ==
    [i \in 1..(Len(frames) - 1) |-> Build(dec, CutRecord(dec, frames[i].payload, <<>>))]

C1_ListDecodeYieldsRecordsInOrder ==
    (op = "decode" /\ RecordsThenEnd) =>
        /\ pc # "raised"
        /\ pos = Len(wire) => pc = "returned"
        /\ pc = "returned" => (pos = Len(wire) /\ out = ExpectedList)

C1_Witness ==
    /\ op = "decode" /\ RecordsThenEnd /\ pc = "returned"
    /\ Len(frames) = 3 /\ Len(out) = 2 /\ out[1] # out[2]

(***************************************************************************)
(* C2.  RequestResponseHeader.decode given k >= 0 unrelated frames (each   *)
(* with the payload its size declares) and then a frame of the expected    *)
(* type: once the header of that frame is read, decode has returned, for   *)
(* the first time, holding that header, with the stream at the first       *)
(* payload byte of that frame, so each unrelated frame cost exactly its    *)
(* header and its size - 8 payload bytes.                                  *)
(***************************************************************************)
\* frames 1..k are unrelated and frame k + 1 is of the expected type
UnrelatedThenExpected(k) ==
    /\ k < Len(frames) /\ FreshStream
    /\ \A j \in 1..k : IsUnrelatedFrame(frames[j], ExpectedType(dec))
    /\ frames[k + 1].type = ExpectedType(dec)

HeaderFilteringAt(k) ==
    pos >= FrameAt(k + 1) + HEADER_SIZE =>
        /\ accepted # <<>>
        /\ accepted[1] = [at |-> FrameAt(k + 1) + HEADER_SIZE, hdr |-> HeaderOf(frames[k + 1])]

\* the claim as written, for every expected type
C2_HeaderFilteringAnyType ==
    op = "decode" =>
        \A k \in 0..MaxFrames : UnrelatedThenExpected(k) => HeaderFilteringAt(k)

\* the claim for every expected type other than 0
C2_HeaderFiltering ==
    (op = "decode" /\ ExpectedType(dec) # 0) =>
        \A k \in 0..MaxFrames : UnrelatedThenExpected(k) => HeaderFilteringAt(k)

C2_Witness ==
    /\ op = "decode" /\ ExpectedType(dec) # 0 /\ UnrelatedThenExpected(2)
    /\ frames[1].payload # <<>> /\ frames[2].type = 0
    /\ accepted # <<>> /\ accepted[1].at = FrameAt(3) + HEADER_SIZE

(***************************************************************************)
(* C3.  A single-record decoder (TickInfo, SystemInfo, AddressInfo,        *)
(* TransactionStatus, TickData) runs the header filtering once.  If it     *)
(* ends on END_RESPONSE, decode returns with the result as the constructor *)
(* left it.  Otherwise decode reads exactly one record after that header   *)
(* and returns with it, reading nothing of what follows the record.        *)
(***************************************************************************)
C3Decoders == {"TickInfo", "SystemInfo", "AddressInfo", "TransactionStatus", "TickData"}

\* the bytes of the stream after the first header that decode accepted
AfterFirstHeader == SubSeq(wire, accepted[1].at + 1, Len(wire))

C3_SingleRecordDecode ==
    (op = "decode" /\ dec \in C3Decoders) =>
        /\ Len(accepted) <= 1
        /\ pc = "returned" => accepted # <<>>
        /\ accepted # <<>> =>
              IF accepted[1].hdr.type = END_RESPONSE
              THEN pc = "returned" /\ out = Default(dec) /\ pos = accepted[1].at
              ELSE /\ pc = "recv" => stage = "body"
                   /\ pc = "returned" =>
                         /\ out = Build(dec, CutRecord(dec, AfterFirstHeader, <<>>))
                         /\ pos = accepted[1].at + RecordLen(dec, AfterFirstHeader)

\* a record was decoded and the frame after it is still unread
C3_Witness ==
    /\ op = "decode" /\ dec \in C3Decoders /\ pc = "returned"
    /\ accepted[1].hdr.type # END_RESPONSE /\ out # Default(dec)
    /\ Len(frames) >= 2 /\ pos = FrameAt(Len(frames))

(***************************************************************************)
(* What the properties say about a public call.                            *)
(***************************************************************************)
ClosedError == "ValueError: Connection closed while reading data"

FutureTickError == "ValueError: Requested tick is in the future"

\* exceptions that come from the transport, not from what the peer wrote
TransportErrors == {ClosedError, "OSError: sendall failed", "TimeoutError: timed out"}

\* exceptions the code raises when it rejects an argument
ValidationErrors ==
    {"ValueError: Invalid identity format", "ValueError: Invalid identity length",
     "ValueError: asset name is required"}

\* a public operation that sends a request and decodes a response
ExchangeCall == op \notin {"none", "decode", "get_peers", "send_raw_transaction"}

\* the response of the current exchange is frames of other types, each with
\* its declared payload, and then END_RESPONSE
NoiseThenEnd ==
    /\ FreshStream /\ frames # <<>>
    /\ IsEndFrame(frames[Len(frames)])
    /\ \A i \in 1..(Len(frames) - 1) : IsUnrelatedFrame(frames[i], ExpectedType(dec))

(***************************************************************************)
(* C4.  Protocol noise is never surfaced as an error: when the response    *)
(* stream is frames of unexpected types (type 0 among them), each with its *)
(* declared payload, followed by END_RESPONSE, the operation returns the   *)
(* empty list or the default value of its response, and does not raise.    *)
(* The code does not keep to this: NoiseOnUncheckedCalls is what holds.     *)
(***************************************************************************)
\* the class of the object operation o returns
ResponseOf(o) == IF o = "get_tick_transactions" THEN "Transactions" ELSE dec

C4_NoiseNeverSurfaces ==
    (ExchangeCall /\ NoiseThenEnd /\ pos = Len(wire) /\ pc \in {"returned", "raised"}
        /\ err \notin TransportErrors) =>
            (pc = "returned" /\ out = Default(ResponseOf(op)))

\* the operations that call _send_request once
SingleExchangeOps ==
    {"get_issued_assets", "get_possessed_assets", "get_owned_assets", "get_identity",
     "get_tick_info", "get_system_info", "get_tx_status", "get_computors",
     "get_asset_possessions_by_filter", "get_asset_ownerships_by_filter",
     "get_asset_issuances_by_filter", "get_asset_issuances_by_universe_index",
     "get_asset_ownerships_by_universe_index", "get_asset_possessions_by_universe_index"}

\* what does hold: noise then END_RESPONSE gives the default result in every
\* operation with a single exchange, and in the others when tick_number is 0
NoiseOnUncheckedCalls ==
    (ExchangeCall /\ NoiseThenEnd /\ pos = Len(wire) /\ pc \in {"returned", "raised"}
        /\ err \notin TransportErrors
        /\ (op \in SingleExchangeOps \/ (op # "query_smart_contract" /\ arg.tick_number = 0))) =>
            (pc = "returned" /\ out = Default(ResponseOf(op)))

(***************************************************************************)
(* C5.  must_recv(conn, n) returns exactly n bytes, the next n bytes of    *)
(* the stream in order, however conn.recv splits them; it raises when      *)
(* conn.recv returns empty before n bytes are there, and the public call   *)
(* whose decode meets that raises and returns no result.                   *)
(***************************************************************************)
C5_MustRecvExact ==
    /\ Len(lastRead.data) = lastRead.size
    /\ lastRead.data = SubSeq(wire, lastRead.mark + 1, lastRead.mark + lastRead.size)
    /\ pc = "recv" =>
          /\ data = SubSeq(wire, mark + 1, pos)
          /\ need = want - Len(data) /\ need > 0
    /\ err = ClosedError =>
          /\ pc = "raised" /\ out = "none"
          /\ peerClosed /\ pos = Len(wire) /\ Len(data) < want
    /\ pc = "returned" => (need = 0 /\ lastRead.mark + lastRead.size = pos)

\* a public call raised with part of a must_recv read, after short reads
C5_Witness ==
    /\ op \in {"get_tick_info", "get_system_info", "get_computors"}
    /\ pc = "raised" /\ err = ClosedError
    /\ data # <<>> /\ Len(data) < want /\ lastRead.size > 0 /\ shorts > 0

(***************************************************************************)
(* C6.  Timeout scoping: after a call of _send_request or                  *)
(* _send_smart_contract_request the socket timeout is what it was before   *)
(* the call, whether the call returned, sendall failed or the decode of    *)
(* the response failed; while the call waits for the response the socket   *)
(* has the client's timeout.                                               *)
(***************************************************************************)
C6_TimeoutRestored ==
    (op \notin {"none", "decode"}) =>
        /\ pc \in {"returned", "raised"} => sockTimeout = tmoAtCall
        /\ pc \in {"recv", "recv4096"} => (sockTimeout = timeout /\ old_timeout = tmoAtCall)

\* the decode of a response failed under a timeout that differs from the socket's
C6_Witness ==
    /\ op \notin {"none", "decode"} /\ pc = "raised" /\ err = ClosedError
    /\ Len(sent) = 1 /\ timeout # tmoAtCall /\ sockTimeout = tmoAtCall

(***************************************************************************)
(* C7.  get_tick_data(tick_number) and get_quorum_votes(tick_number) with  *)
(* tick_number greater than the node's latest tick fail with a validation  *)
(* error.  As stated (C7_FutureTickSendsNothing): without any byte sent.   *)
(* As the code has it (C7_FutureTickAfterTickInfo): the latest tick is the *)
(* one a tick-info exchange returns, so the 8-byte                         *)
(* CURRENT_TICK_INFO_REQUEST is sent and answered first; the call then     *)
(* raises without sending the tick-data or quorum request, and that        *)
(* request is sent only if the tick is not greater than the latest tick.   *)
(***************************************************************************)
TickCheckedCall == op \in {"get_tick_data", "get_quorum_votes"}

LastTick == IF lastRead.size = 16 THEN LE(Slice(lastRead.data, 4, 8)) ELSE 0

Malformed(id) == Len(id) # 60 \/ \E i \in 1..Len(id) : id[i] < 65 \/ id[i] > 90

\* the call in progress was given a malformed identity that is not empty
MalformedIdentityGiven ==
    CASE op \in {"get_issued_assets", "get_owned_assets", "get_possessed_assets",
                 "get_identity"} -> Malformed(arg.id)
      [] op = "get_asset_issuances_by_filter" ->
            arg.asset.identity # <<>> /\ Malformed(arg.asset.identity)
      [] op = "get_asset_ownerships_by_filter" ->
            \E id \in {arg.asset.identity, arg.owner.identity} : id # <<>> /\ Malformed(id)
      [] op = "get_asset_possessions_by_filter" ->
            \E id \in {arg.asset.identity, arg.owner.identity, arg.possessor.identity} :
                id # <<>> /\ Malformed(id)
      [] OTHER -> FALSE

C8_MalformedIdentityRaisesUnsent ==
    MalformedIdentityGiven =>
        /\ pc = "raised" /\ err \in ValidationErrors
        /\ sent = <<>> /\ pos = 0 /\ sockTimeout = tmoAtCall

\* a by-filter call with a good issuer and name and an owner one letter short
C8_Witness ==
    /\ op = "get_asset_ownerships_by_filter" /\ pc = "raised"
    /\ ~Malformed(arg.asset.identity) /\ arg.asset.name # <<>>
    /\ Len(arg.owner.identity) = 59
    /\ err = "ValueError: Invalid identity length" /\ sent = <<>>

(***************************************************************************)
(* C9.  get_peers fails explicitly on every call: it raises, and never     *)
(* returns normally.  The code does not: its body is `pass`.               *)
(***************************************************************************)
C9_GetPeersRaises == op = "get_peers" => pc = "raised"

(***************************************************************************)
(* C10.  In every request packet of _serialize_request and                 *)
(* _serialize_smart_contract_request the correlation id (bytes 4..7) is    *)
(* zero if and only if the request type (byte 3) is BROADCAST_TRANSACTION; *)
(* in every other packet it is a value of 1..0xFFFFFFFF, drawn for that    *)
(* packet.                                                                 *)
(***************************************************************************)
C10_DejaVuZeroIffBroadcast ==
    \A i \in 1..Len(sent) :
        /\ Len(sent[i]) >= HEADER_SIZE
        /\ (Slice(sent[i], 4, 8) = Zeros(4)) <=> (sent[i][4] = BROADCAST_TRANSACTION)

\* a call that sent two requests, each with an id of its own
C10_Witness ==
    /\ Len(sent) = 2
    /\ Slice(sent[1], 4, 8) # Zeros(4) /\ Slice(sent[2], 4, 8) # Zeros(4)
    /\ Slice(sent[1], 4, 8) # Slice(sent[2], 4, 8)

(***************************************************************************)
(* C11.  In every request packet of _serialize_request and                 *)
(* _serialize_smart_contract_request the 24-bit size field of the header   *)
(* (b0 | b1<<8 | b2<<16) is 8 plus the length of the payload after the     *)
(* header, the length of the packet.  The code does not keep to this for   *)
(* a payload of 2^24 - 8 bytes or more: SizeFieldWhereItFits is what       *)
(* holds.                                                                  *)
(***************************************************************************)
HeaderCall == op \in {"_serialize_request", "_serialize_smart_contract_request"}

C11_SizeFieldIsPacketLength ==
    /\ HeaderCall => LE(Slice(out, 0, 3)) = HEADER_SIZE + arg.size
    /\ \A i \in 1..Len(sent) : LE(Slice(sent[i], 0, 3)) = Len(sent[i])

\* set_size keeps the low 24 bits of the packet length
SizeFieldWhereItFits ==
    HeaderCall => LE(Slice(out, 0, 3)) = (HEADER_SIZE + arg.size) % 16777216

(***************************************************************************)
(* C12.  Transaction round trip: for a transaction whose input_size is     *)
(* the length of its input (0 and the maximal 65535 included), with a      *)
(* signed amount, decoding the bytes encode produces into a fresh          *)
(* Transaction gives every field of the original.                          *)
(***************************************************************************)
C12_TransactionRoundTrip ==
    op = "Transaction.encode" =>
        /\ out.size = 144 + arg.input_size
        /\ out.decoded = arg

C12_Witness ==
    /\ op = "Transaction.encode" /\ pc = "returned"
    /\ arg.input_size = MaxInput /\ arg.amount < 0
    /\ out.decoded.input = arg.input

(***************************************************************************)
(* C13.  Identity round trip: for a 32-byte public key and either case,    *)
(* to_pub_key (same case) of the identity from_pub_key produces is the     *)
(* original 32 bytes, whatever the four checksum characters are.           *)
(***************************************************************************)
C13_IdentityRoundTrip ==
    op = "Identity.from_pub_key" =>
        /\ Len(out.identity) = 60
        /\ out.back = [err |-> "none", key |-> arg.pub_key]

C13_Witness ==
    /\ op = "Identity.from_pub_key" /\ pc = "returned"
    /\ arg.pub_key = Fill(32, 255) /\ arg.is_lower_case
    /\ SubSeq(out.identity, 57, 60) # Fill(4, 97)
    /\ out.back.key = arg.pub_key

(***************************************************************************)
(* C14.  Filter flag table: in every request the issuance, ownership and   *)
(* possession by-filter builders produce, each of the six wildcard bits of *)
(* the flags field is set exactly when its field is absent or zero:        *)
(* any-issuer, any-asset-name, any-owner, any-owner-contract,              *)
(* any-possessor, any-possessor-contract.  The builders do not keep to     *)
(* this: FlagsAsBuilt is what they do.                                     *)
(***************************************************************************)
IssuancesBuilder == op = "_create_asset_issuances_by_filter_request"

HolderBuilder ==
    op \in {"_create_get_asset_ownerships_by_filter_request",
            "_create_get_asset_possessions_by_filter_request"}

FilterBuilt == (IssuancesBuilder \/ HolderBuilder) /\ pc = "returned"

\* bit b (a power of two) of the flags field of the request built
FlagSet(b) == (LE(Slice(out, 2, 4)) \div b) % 2 = 1

C14_FilterFlagTable ==
    FilterBuilt =>
        /\ FlagSet(FLAG_ANY_ISSUER) <=> arg.asset.identity = <<>>
        /\ FlagSet(FLAG_ANY_ASSET_NAME) <=> arg.asset.name = <<>>
        /\ FlagSet(FLAG_ANY_OWNER) <=> arg.owner.identity = <<>>
        /\ FlagSet(FLAG_ANY_OWNER_CONTRACT) <=> arg.owner.contract = 0
        /\ FlagSet(FLAG_ANY_POSSESSOR) <=> arg.possessor.identity = <<>>
        /\ FlagSet(FLAG_ANY_POSSESSOR_CONTRACT) <=> arg.possessor.contract = 0

\* the issuances builder sets the issuer and name bits only, the shared
\* builder of the other two the holder bits only
FlagsAsBuilt ==
    /\ IssuancesBuilder /\ pc = "returned" =>
        /\ FlagSet(FLAG_ANY_ISSUER) <=> arg.asset.identity = <<>>
        /\ FlagSet(FLAG_ANY_ASSET_NAME) <=> arg.asset.name = <<>>
        /\ ~FlagSet(FLAG_ANY_OWNER) /\ ~FlagSet(FLAG_ANY_OWNER_CONTRACT)
        /\ ~FlagSet(FLAG_ANY_POSSESSOR) /\ ~FlagSet(FLAG_ANY_POSSESSOR_CONTRACT)
    /\ HolderBuilder /\ pc = "returned" =>
        /\ ~FlagSet(FLAG_ANY_ISSUER) /\ ~FlagSet(FLAG_ANY_ASSET_NAME)
        /\ FlagSet(FLAG_ANY_OWNER) <=> arg.owner.identity = <<>>
        /\ FlagSet(FLAG_ANY_OWNER_CONTRACT) <=> arg.owner.contract = 0
        /\ FlagSet(FLAG_ANY_POSSESSOR) <=> arg.possessor.identity = <<>>
        /\ FlagSet(FLAG_ANY_POSSESSOR_CONTRACT) <=> arg.possessor.contract = 0

\* an ownership or possession request built without an issuer
NoIssuerFilterBuilt == HolderBuilder /\ pc = "returned" /\ arg.asset.identity = <<>>

(***************************************************************************)
(* C15.  Each of get_asset_issuances_by_filter,                            *)
(* get_asset_ownerships_by_filter and get_asset_possessions_by_filter      *)
(* rejects an empty asset name with a validation error and sends nothing   *)
(* on the connection.  get_asset_issuances_by_filter does not:             *)
(* EmptyNameRejectedByHolderFilters is what holds.                         *)
(***************************************************************************)
HolderFilterOps == {"get_asset_ownerships_by_filter", "get_asset_possessions_by_filter"}

C15_EmptyNameRejectedUnsent ==
    op \in HolderFilterOps \cup {"get_asset_issuances_by_filter"} /\ arg.asset.name = <<>> =>
        /\ pc = "raised" /\ err \in ValidationErrors
        /\ sent = <<>> /\ pos = 0

EmptyNameRejectedByHolderFilters ==
    op \in HolderFilterOps /\ arg.asset.name = <<>> =>
        /\ pc = "raised" /\ err = "ValueError: asset name is required"
        /\ sent = <<>> /\ pos = 0

\* the issuances request goes out with the any-asset-name bit and eight
\* zero bytes for the name
EmptyNameIssuancesSent ==
    /\ op = "get_asset_issuances_by_filter" /\ arg.asset.name = <<>>
    /\ Len(sent) = 1
    /\ (LE(Slice(sent[1], HEADER_SIZE + 2, HEADER_SIZE + 4)) \div FLAG_ANY_ASSET_NAME) % 2 = 1
    /\ Slice(sent[1], HEADER_SIZE + 40, HEADER_SIZE + 48) = Zeros(8)

(***************************************************************************)
(* C16.  Strictly synchronous exchange: in a sequence of public calls on   *)
(* one client, the two-exchange operations included, a request packet is   *)
(* written only after the decode of the previous request's response has    *)
(* returned or raised, so that at most one request is outstanding.         *)
(***************************************************************************)
\* a decode is waiting on conn.recv
DecodePending == pc \in {"recv", "recv4096"}

\* the step is the conn.recv that completes a must_recv on which the pending
\* decode returns
DecodeReturnsInStep ==
    /\ pc = "recv" /\ pos' = pos + need
    /\ AfterRead(dec, stage, hdr, rec, result, accepted,
                 must_recv(data, SubSeq(wire, pos + 1, pos + need)), pos + need).done

PacketWritten == sent' # sent

CallWaiting == pc \in {"recv", "recv4096"}

CallOver == pc \in {"returned", "raised"}

\* the exchanges an operation has: get_tick_info first in the tick operations
Exchanges(o) ==
    CASE o = "get_tick_transactions" -> 3
      [] o \in {"get_tick_data", "get_quorum_votes"} -> 2
      [] o = "get_peers" -> 0
      [] OTHER -> 1

\* one packet for each exchange the call has begun, no two of one request type
EachPacketOnce ==
    /\ Len(sent) = phase
    /\ Len(sent) <= Exchanges(op)
    /\ \A i, j \in 1..Len(sent) : i < j => sent[i][4] # sent[j][4]

\* no step of a call that raised sends
NoResend == [][pc = "raised" => sent' = sent]_sent

PacketsOnce == []EachPacketOnce /\ NoResend

(***************************************************************************)
(* C18.  The computors response is decoded with the streaming list         *)
(* pattern: Computors.decode keeps reading BROADCAST_COMPUTORS frames, a   *)
(* record per frame, and returns only when an END_RESPONSE frame arrives,  *)
(* which the same call consumes.  The code returns after the first         *)
(* record: ComputorsReturnsAfterRecord is what holds.                      *)
(***************************************************************************)
ComputorsDecoded == dec = "Computors" /\ pc = "returned"

C18_ComputorsStreamsToEnd ==
    ComputorsDecoded => hdr.type = END_RESPONSE

\* the decode returns on the first frame header.decode accepts: END_RESPONSE,
\* or a BROADCAST_COMPUTORS frame, read to the end of its record and no further
ComputorsReturnsAfterRecord ==
    ComputorsDecoded =>
        /\ Len(accepted) = 1
        /\ hdr.type \in {END_RESPONSE, BROADCAST_COMPUTORS}
        /\ hdr.type = BROADCAST_COMPUTORS =>
              pos = accepted[1].at + 2 + NUMBER_OF_COMPUTORS * 32 + 64

\* Computors().decode(conn) returned with the END_RESPONSE frame that follows
\* the record still unread
ComputorsLeavesEnd ==
    /\ op = "decode" /\ ComputorsDecoded /\ hdr.type = BROADCAST_COMPUTORS
    /\ Len(frames) = 2 /\ IsEndFrame(frames[2])
    /\ pos = Len(wire) - HEADER_SIZE

(***************************************************************************)
(* C19.  query_smart_contract decodes its response as a single-record      *)
(* response: after the request is sent it filters the headers on the       *)
(* connection for CONTRACT_FUNCTION_RESPONSE; on a terminator it returns a *)
(* result with empty data, otherwise a result whose data is the size - 8   *)
(* payload bytes of the frame.  The code raises instead:                   *)
(* ContractQueryNeverReturns is what holds.                                *)
(***************************************************************************)
ContractQueryOver == op = "query_smart_contract" /\ pc \in {"returned", "raised"}

\* the peer's first frame is the terminator, or a whole frame of type 43
ContractAnswered ==
    /\ frames # <<>>
    /\ \/ IsEndFrame(frames[1])
       \/ /\ frames[1].type = CONTRACT_FUNCTION_RESPONSE
          /\ frames[1].size = FrameLen(frames[1])

C19_ContractResponseDecoded ==
    ContractQueryOver /\ ContractAnswered =>
        /\ pc = "returned"
        /\ out = [data |-> IF IsEndFrame(frames[1]) THEN <<>> ELSE frames[1].payload]

AttributeError == "AttributeError: 'bytes' object has no attribute 'recv'"

\* the call never returns: once conn.recv(4096) gave its bytes, decode is
\* handed them in place of the connection and raises
ContractQueryNeverReturns ==
    op = "query_smart_contract" =>
        /\ pc # "returned"
        /\ ContractQueryOver /\ ContractAnswered => err = AttributeError /\ out = "none"

\* a whole CONTRACT_FUNCTION_RESPONSE frame with a payload is answered, and
\* the call raises
ContractResponseRaises ==
    /\ ContractQueryOver /\ frames # <<>>
    /\ frames[1].type = CONTRACT_FUNCTION_RESPONSE /\ frames[1].payload # <<>>
    /\ frames[1].size = FrameLen(frames[1])
    /\ pc = "raised" /\ err = AttributeError

(***************************************************************************)
(* C20.  Every REQUEST_ASSETS payload is 112 bytes in both shapes.  A      *)
(* by-filter request, for inputs that pass validation, is kind, flags,     *)
(* owner-contract and possessor-contract of 2 bytes each, the 32-byte      *)
(* issuer, the 8-byte name (the first 8 bytes at most of its encoding,     *)
(* zero-padded on the right), the 32-byte owner and the 32-byte possessor, *)
(* an absent identity being 32 zero bytes.  A by-universe-index request is *)
(* kind 3, zero flags, the 4-byte index and 104 zero bytes.                *)
(***************************************************************************)
\* the 32 bytes that stand for an identity in a request
KeyOf(identity) == IF identity = <<>> THEN Zeros(32) ELSE to_pub_key(identity, FALSE).key

FilterKind ==
    CASE op = "_create_asset_issuances_by_filter_request" -> ASSET_ISSUANCE_RECORDS
      [] op = "_create_get_asset_ownerships_by_filter_request" -> ASSET_OWNERSHIP_RECORDS
      [] op = "_create_get_asset_possessions_by_filter_request" -> ASSET_POSSESSION_RECORDS

UniverseIndexBuilt == op = "RequestAssetsByUniverseIndex.encode" /\ pc = "returned"

C20_AssetRequestIs112Bytes ==
    /\ FilterBuilt =>
        /\ Len(out) = 112
        /\ LE(Slice(out, 0, 2)) = FilterKind
        /\ LE(Slice(out, 4, 6)) = arg.owner.contract
        /\ LE(Slice(out, 6, 8)) = arg.possessor.contract
        /\ Slice(out, 8, 40) = KeyOf(arg.asset.identity)
        /\ \A i \in 1..8 :
              out[40 + i] = IF i <= Len(arg.asset.name) THEN arg.asset.name[i] ELSE 0
        /\ Slice(out, 48, 80) = KeyOf(arg.owner.identity)
        /\ Slice(out, 80, 112) = KeyOf(arg.possessor.identity)
    /\ UniverseIndexBuilt =>
        /\ Len(out) = 112
        /\ LE(Slice(out, 0, 2)) = ASSET_BY_UNIVERSE_INDEX
        /\ Slice(out, 2, 4) = Zeros(2)
        /\ LE(Slice(out, 4, 8)) = arg.index
        /\ Slice(out, 8, 112) = Zeros(104)

\* a possession request with a name longer than 8 bytes, a present issuer
\* and no owner
C20_Witness ==
    /\ op = "_create_get_asset_possessions_by_filter_request" /\ pc = "returned"
    /\ Len(arg.asset.name) > 8 /\ arg.asset.identity # <<>>
    /\ arg.owner.identity = <<>> /\ arg.possessor.identity # <<>>
    /\ Len(out) = 112

\* every REQUEST_ASSETS packet a public operation sends is the header and
\* 112 bytes
AssetPacketsAre120Bytes ==
    \A i \in 1..Len(sent) : sent[i][4] = REQUEST_ASSETS => Len(sent[i]) = HEADER_SIZE + 112

(***************************************************************************)
(* C21.  Identity.to_pub_key raises a validation error for every string    *)
(* that is not exactly 60 characters long or that has a character outside  *)
(* the letter range of the chosen case (A-Z, or a-z when is_lower_case);   *)
(* no key is returned for such a string.                                   *)
(***************************************************************************)
ToPubKeyCalled == op = "Identity.to_pub_key"

\* the first letter of the chosen case
LowLetter == IF arg.is_lower_case THEN 97 ELSE 65

OutsideAlphabet ==
    \E i \in 1..Len(arg.identity) :
        arg.identity[i] < LowLetter \/ arg.identity[i] > LowLetter + 25

C21_ToPubKeyRejectsMalformed ==
    ToPubKeyCalled /\ (Len(arg.identity) # 60 \/ OutsideAlphabet) =>
        /\ pc = "raised" /\ out = "none"
        /\ err = (IF OutsideAlphabet THEN "ValueError: Invalid identity format"
                  ELSE "ValueError: Invalid identity length")

\* sixty characters, the last one the character after 'Z'
C21_Witness ==
    /\ ToPubKeyCalled /\ pc = "raised" /\ ~arg.is_lower_case
    /\ Len(arg.identity) = 60 /\ arg.identity[60] = 91
    /\ err = "ValueError: Invalid identity format"

\* the empty string and strings of in-alphabet letters of a wrong length are
\* rejected for their length
WrongLengthRejected ==
    ToPubKeyCalled /\ ~OutsideAlphabet /\ Len(arg.identity) \in {0, 59, 61} =>
        pc = "raised" /\ err = "ValueError: Invalid identity length"

(***************************************************************************)
(* C22.  RequestResponseHeader.decode stops at once on a header of type    *)
(* END_RESPONSE, for every expected_type: it returns with header.type = 35 *)
(* having consumed the 8 header bytes of that frame and no more, whatever  *)
(* the size field of the frame says, and every caller then stops reading.  *)
(***************************************************************************)
\* header.decode returned a header of type END_RESPONSE as its i-th return
EndAccepted(i) == accepted[i].hdr.type = END_RESPONSE

C22_EndStopsDecode ==
    \A i \in 1..Len(accepted) :
        EndAccepted(i) =>
            /\ i = Len(accepted)
            /\ pc = "returned" /\ hdr.type = END_RESPONSE
            /\ pos = accepted[i].at
            /\ ParseHeader(SubSeq(wire, pos - HEADER_SIZE + 1, pos)) = accepted[i].hdr

\* a terminator that declares and carries a payload: decode returned with
\* the payload unread
C22_Witness ==
    /\ op = "decode" /\ pc = "returned" /\ accepted # <<>> /\ EndAccepted(Len(accepted))
    /\ get_size(hdr) = HEADER_SIZE + JunkLen
    /\ pos = Len(wire) - JunkLen
    /\ Len(frames) >= 2

(***************************************************************************)
(* C23.  Header encode and decode disagree on the byte order of the        *)
(* correlation id.                                                         *)
(***************************************************************************)
HeaderEncoded == op = "RequestResponseHeader.encode" /\ pc = "returned"

\* the 32-bit value whose four bytes are those of v in the opposite order
Reversed(v) ==
    [hi |-> (v.lo % 256) * 256 + v.lo \div 256, lo |-> (v.hi % 256) * 256 + v.hi \div 256]

\* C23: encode gives 8 bytes whose bytes 4-7 are the correlation id in
\* little-endian order; the header decoded from those 8 bytes has the size
\* bytes and the type of the encoded header and its correlation id with the
\* four bytes reversed; the decoded size is b0 | b1<<8 | b2<<16 and the
\* decoded type is byte 3.
C23_HeaderAsymmetry ==
    HeaderEncoded =>
        LET b == out.encoded
            h == out.decoded
        IN  /\ Len(b) = HEADER_SIZE
            /\ b[5] + 256 * b[6] = arg.deja_vu.lo
            /\ b[7] + 256 * b[8] = arg.deja_vu.hi
            /\ h.size = arg.size
            /\ h.type = arg.type
            /\ h.deja_vu = Reversed(arg.deja_vu)
            /\ get_size(h) = b[1] + 256 * b[2] + 65536 * b[3]
            /\ h.type = b[4]

C23_Witness ==
    /\ HeaderEncoded
    /\ arg.deja_vu = [hi |-> 258, lo |-> 772]
    /\ out.decoded.deja_vu = [hi |-> 1027, lo |-> 513]
    /\ get_size(out.decoded) = 66051
    /\ out.decoded.type = END_RESPONSE

(***************************************************************************)
(* C24.  Variable-length records are read for the length their own fields  *)
(* declare.                                                                *)
(***************************************************************************)
\* the length the record that begins at offset at of the stream declares
DeclaredLen(d, at) ==
    IF d = "Transactions"
    THEN 80 + (wire[at + 79] + 256 * wire[at + 80]) + 64
    ELSE 12 + 128 + 32 * (wire[at + 9] + 256 * wire[at + 10]
                            + 65536 * wire[at + 11] + 16777216 * wire[at + 12])

\* this step makes the last read of a record of a variable-length decoder
RecordDecodedNow ==
    /\ pc = "recv" /\ accepted # <<>>
    /\ \/ dec = "Transactions" /\ Len(result') = Len(result) + 1
       \/ /\ dec = "TransactionStatus" /\ pc' = "returned"
          /\ accepted[Len(accepted)].hdr.type = TX_STATUS_RESPONSE

\* C24: the step that completes a Transaction or a TransactionStatus leaves
\* the stream read up to the header of the record plus 80 + input_size + 64
\* bytes (12 + 128 + tx_count * 32 for a status), which is where the next
\* frame begins; in a Transactions stream the next read is the header read
\* that begins there.
C24_RecordsConsumeDeclaredLength ==
    [][RecordDecodedNow =>
          LET at == accepted[Len(accepted)].at
          IN  /\ accepted' = accepted
              /\ pos' = at + DeclaredLen(dec, at)
              /\ \E j \in 1..Len(frames) :
                    /\ FrameAt(j) + HEADER_SIZE = at
                    /\ pos' = FrameAt(j) + FrameLen(frames[j])
              /\ dec = "Transactions" =>
                    stage' = "hdr" /\ mark' = pos' /\ need' = HEADER_SIZE]_pos

C24_Witness ==
    /\ op = "decode" /\ dec = "Transactions" /\ pc = "returned"
    /\ Len(result) = 2
    /\ result[1].input_size = 3 /\ Len(result[1].input) = 3
    /\ result[2].input_size = 0
    /\ pos = Len(wire)

(***************************************************************************)
(* C25.  to_pub_key does not look at the four checksum characters.         *)
(***************************************************************************)
ToPubKeyCalledTwice == op = "Identity.to_pub_key, twice" /\ pc = "returned"

\* sixty characters, all in the letter range that is_lower_case chooses
InAlphabet60(identity, is_lower_case) ==
    /\ Len(identity) = 60
    /\ \A i \in 1..60 :
          IF is_lower_case THEN 97 <= identity[i] /\ identity[i] <= 122
          ELSE 65 <= identity[i] /\ identity[i] <= 90

\* C25: two 60-character identities in the chosen alphabet that agree on
\* their first 56 characters have the same to_pub_key outcome: the same key,
\* or both calls fail.
C25_ChecksumIgnored ==
    (/\ ToPubKeyCalledTwice
     /\ InAlphabet60(arg.first, arg.is_lower_case)
     /\ InAlphabet60(arg.second, arg.is_lower_case)
     /\ SubSeq(arg.first, 1, 56) = SubSeq(arg.second, 1, 56))
        => \/ /\ out.first.err = "none" /\ out.second.err = "none"
              /\ out.first.key = out.second.key
           \/ out.first.err # "none" /\ out.second.err # "none"

\* two identities with different checksum characters give the same key
C25_Witness ==
    /\ ToPubKeyCalledTwice
    /\ InAlphabet60(arg.first, arg.is_lower_case)
    /\ InAlphabet60(arg.second, arg.is_lower_case)
    /\ SubSeq(arg.first, 57, 60) # SubSeq(arg.second, 57, 60)
    /\ out.first.err = "none" /\ out.first.key = out.second.key
    /\ Len(out.first.key) = 32

\* two identities with different checksum characters both fail
BothFailWhateverChecksum ==
    /\ ToPubKeyCalledTwice
    /\ InAlphabet60(arg.first, arg.is_lower_case)
    /\ InAlphabet60(arg.second, arg.is_lower_case)
    /\ SubSeq(arg.first, 57, 60) # SubSeq(arg.second, 57, 60)
    /\ out.first.err # "none" /\ out.second.err # "none"

(***************************************************************************)
(* C26.  The correlation id of a response frame decides nothing.           *)
(***************************************************************************)
\* the correlation id bytes given to the frames of the other stream
OtherIds == {<<0, 0, 0, 0>>, <<255, 255, 255, 255>>, <<4, 3, 2, 1>>}

\* the stream the peer wrote, bytes 4-7 of every frame header replaced
SameButIds(dv) == Concat([i \in 1..Len(frames) |-> FrameBytes([frames[i] EXCEPT !.dv = dv])])

\* which headers header.decode returned on: where, and their size and type
Decisions(acc) ==
    [i \in 1..Len(acc) |-> [at |-> acc[i].at, size |-> acc[i].hdr.size, type |-> acc[i].hdr.type]]

DecodeOver == op = "decode" /\ pc \in {"returned", "raised"}

\* C26: a decode that is over (returned, or stopped by the end of the
\* stream) and the same decode on the stream that differs only in bytes 4-7
\* of its frame headers have returned on the same headers, discarded the same
\* frames, read the same bytes of a record left unfinished, and hold the same
\* result.
C26_CorrelationIdDecidesNothing ==
    DecodeOver =>
        \A dv \in OtherIds :
            LET n == DecodeRun(dec, Entered(dec), SameButIds(dv), 0)
            IN  /\ n.done <=> pc = "returned"
                /\ n.result = result
                /\ Decisions(n.accepted) = Decisions(accepted)
                /\ n.rec = rec
                /\ n.stage = stage

\* a decode returned a record after it discarded a frame, on a stream that
\* is none of the other streams
C26_Witness ==
    /\ DecodeOver /\ pc = "returned" /\ dec = "Transactions"
    /\ Len(result) = 1 /\ Len(accepted) = 2 /\ Len(frames) = 3
    /\ frames[1].dv \notin OtherIds /\ frames[2].dv \notin OtherIds
    /\ \A dv \in OtherIds : SameButIds(dv) # wire

(***************************************************************************)
(* C27.  A decode that reads one record leaves what follows it in the      *)
(* stream, and the next decode on the connection reads that first.         *)
(***************************************************************************)
\* the decoders whose decode returns after one record
OneRecordDecoders == {"TickInfo", "SystemInfo", "TickData", "Computors"}

\* header.decode returned for the i-th time on a header of the expected
\* type, in a decode that takes one record
RecordAccepted(i) ==
    dec \in OneRecordDecoders /\ accepted[i].hdr.type = ExpectedType(dec)

\* bytes written before the running exchange began were unread when it began
Stale == start < base

\* and they begin with an END_RESPONSE header
StaleEnd == Stale /\ wire[start + 4] = END_RESPONSE

\* or with the header of a frame the decoder of the exchange discards
StaleUnrelated ==
    /\ Stale /\ dec # "none"
    /\ wire[start + 4] # END_RESPONSE
    /\ wire[start + 4] = 0 \/ wire[start + 4] # ExpectedType(dec)

\* C27: a one-record decode returns from header.decode on no header after
\* the one of its record, and the call that returns from it has read the
\* stream up to the end of that record: when the record was the first frame
\* of its response the frames after it are in the stream, unread; a decode that begins with an unread END_RESPONSE frame in the
\* stream reads those 8 bytes and nothing more, and the call returns the
\* default result with its own response unread; a decode that begins with an
\* unread frame of another type returns from header.decode only past it.
C27_TrailingFrameStaysForNextCall ==
    /\ \A i \in 1..Len(accepted) :
          RecordAccepted(i) =>
              LET at == accepted[i].at
              IN  /\ i = Len(accepted)
                  /\ pc = "returned" =>
                        /\ pos = at + RecordLen(dec, SubSeq(wire, at + 1, Len(wire)))
                        /\ at = base + HEADER_SIZE =>
                              Len(wire) - pos = FramesLen(Tail(frames))
    /\ StaleEnd =>
          /\ pos <= start + HEADER_SIZE /\ start + HEADER_SIZE <= base
          /\ pc = "returned" =>
                /\ pos = start + HEADER_SIZE
                /\ out = Default(dec)
                /\ Len(accepted) = 1 /\ accepted[1].at = pos
                /\ accepted[1].hdr.type = END_RESPONSE
    /\ (StaleUnrelated /\ accepted # <<>>) =>
          accepted[1].at >= start + get_size(ParseHeader(SubSeq(wire, start + 1, start + 8)))
                              + HEADER_SIZE

\* get_tick_data: the tick info came with an END_RESPONSE after it, the tick
\* data request was sent and answered with a record, and the call returned
\* an empty TickData, the terminator read and the record not
C27_Witness ==
    /\ op = "get_tick_data" /\ arg.tick_number = 5 /\ pc = "returned" /\ phase = 2
    /\ StaleEnd /\ base = start + HEADER_SIZE
    /\ frames # <<>> /\ frames[1].type = ExpectedType("TickData")
    /\ out = Default("TickData")
    /\ Len(wire) - pos = FramesLen(frames)

\* get_tick_info returned its record, and the terminator sent after it is unread
RecordReadTerminatorLeft ==
    /\ op = "get_tick_info" /\ pc = "returned" /\ out.tick = 5
    /\ Len(frames) = 2 /\ frames[2] = EndFrame
    /\ Len(wire) - pos = HEADER_SIZE

(***************************************************************************)
(* C28.  PublicPeers expects type 0, the type header.decode always         *)
(* discards.                                                               *)
(***************************************************************************)
\* the first END_RESPONSE frame the peer wrote is its k-th frame
FirstEndIs(k) ==
    /\ k \in 1..Len(frames) /\ frames[k].type = END_RESPONSE
    /\ \A j \in 1..(k - 1) : frames[j].type # END_RESPONSE

\* C28: in PublicPeers.decode, header.decode returns on END_RESPONSE headers
\* only: no read of a peer record is ever begun and the response object
\* stays empty; the decode returns right after the header of the first
\* END_RESPONSE frame, every frame before it discarded whole, frames of type
\* 0 with the 16 bytes of a peer record included; otherwise it ends with the
\* exception of a conn.recv that found the connection closed or timed out.
C28_PublicPeersReadsNoRecord ==
    (op = "decode" /\ dec = "PublicPeers") =>
        /\ stage # "body" /\ rec = <<>>
        /\ result = Default("PublicPeers")
        /\ \A i \in 1..Len(accepted) : accepted[i].hdr.type = END_RESPONSE
        /\ pc = "returned" =>
              /\ hdr.type = END_RESPONSE
              /\ out = [peers |-> <<>>]
              /\ \E k \in 1..Len(frames) :
                    FirstEndIs(k) /\ pos = FrameAt(k) + HEADER_SIZE
        /\ pc = "raised" => err \in {ClosedError, "TimeoutError: timed out"}

\* a frame of type 0 that carries a peer record was discarded, a frame of
\* type 0 without payload too, and the decode returned on the terminator
C28_Witness ==
    /\ op = "decode" /\ dec = "PublicPeers" /\ pc = "returned"
    /\ Len(frames) = 3
    /\ frames[1] = RecordFrame("PublicPeers", 1, 0)
    /\ frames[2] = ZeroTypeFrame
    /\ frames[3] = EndFrame
    /\ pos = Len(wire)
    /\ out = [peers |-> <<>>]

\* the decode fails on the closed connection after discarding a peer record
PublicPeersFailsOnClose ==
    /\ op = "decode" /\ dec = "PublicPeers" /\ pc = "raised"
    /\ err = "ValueError: Connection closed while reading data"
    /\ frames # <<>> /\ frames[1] = RecordFrame("PublicPeers", 1, 0)
    /\ pos = Len(wire)

(***************************************************************************)
(* C29.  The tick bound of get_tick_data and get_quorum_votes.             *)
(***************************************************************************)
\* TickInfo.decode of the first exchange, on the bytes the peer wrote
TickInfoExchange == DecodeRun("TickInfo", Entered("TickInfo"), wire, 0)

\* the call is past the decode of its tick-info exchange
TickInfoDecoded ==
    /\ TickCheckedCall
    /\ phase >= 2 \/ (phase = 1 /\ stage = "none" /\ accepted # <<>>)

\* the request type of the second exchange
SecondRequest == IF op = "get_quorum_votes" THEN QUORUM_TICK_REQUEST ELSE TICK_DATA_REQUEST

\* C29: once the tick info is decoded, the call has raised the tick error
\* if and only if tick_number is greater than the tick of that tick info;
\* then the tick-info request is the only packet sent; otherwise (equal
\* ticks included) the second packet is the tick-data or quorum request for
\* tick_number.  A tick-info exchange that ended on a terminator leaves tick
\* 0, which rejects every tick_number above 0.
C29_TickBound ==
    TickInfoDecoded =>
        LET n == TickInfoExchange
            tick == n.result.tick
        IN  /\ n.done
            /\ (pc = "raised" /\ err = FutureTickError) <=> arg.tick_number > tick
            /\ arg.tick_number > tick => Len(sent) = 1 /\ phase = 1
            /\ arg.tick_number <= tick =>
                  /\ Len(sent) = 2 /\ phase = 2
                  /\ sent[2][4] = SecondRequest
                  /\ SubSeq(sent[2], 9, 12) = ToLE(arg.tick_number, 4)
            /\ n.hdr.type = END_RESPONSE =>
                  /\ tick = 0
                  /\ arg.tick_number > 0 =>
                        pc = "raised" /\ err = FutureTickError /\ Len(sent) = 1

\* the current tick is asked for and the second request is sent
C29_Witness ==
    /\ TickInfoDecoded /\ op = "get_quorum_votes"
    /\ arg.tick_number = 5 /\ TickInfoExchange.result.tick = 5
    /\ Len(sent) = 2 /\ sent[2][4] = QUORUM_TICK_REQUEST
    /\ err # FutureTickError

\* the tick-info exchange ended on a terminator and tick 5 is rejected
TerminatorRejectsEveryTick ==
    /\ TickInfoDecoded /\ op = "get_tick_data"
    /\ arg.tick_number = 5 /\ TickInfoExchange.hdr.type = END_RESPONSE
    /\ pc = "raised" /\ err = FutureTickError /\ Len(sent) = 1

(***************************************************************************)
(* C30.  A group of fourteen letters can be worth more than 64 bits hold.  *)
(***************************************************************************)
\* 2^64 - 1 in fourteen base-26 digits, least significant first
Max64 == Base26(Fill(8, 255), 14)

\* the value of the i-th group of identity (i from 0) is 2^64 or more: read
\* from the most significant letter down, its digits first differ from
\* those of 2^64 - 1 by being greater
GroupOverflows(identity, i, low) ==
    \E k \in 1..14 :
        /\ identity[14 * i + k] - low > Max64[k]
        /\ \A j \in (k + 1)..14 : identity[14 * i + j] - low = Max64[j]

SomeGroupOverflows(identity, low) == \E i \in 0..3 : GroupOverflows(identity, i, low)

\* C30: to_pub_key of sixty letters of the chosen alphabet raises exactly
\* when one of the four groups is worth 2^64 or more, and what it raises is
\* the error of struct, not one of the ValueErrors of validation; when every
\* group is below 2^64 it returns a key of 32 bytes.  No group of an
\* identity that from_pub_key made is that large, and to_pub_key returns a
\* key for it.
C30_GroupOverflowIsNotValidated ==
    /\ (ToPubKeyCalled /\ InAlphabet60(arg.identity, arg.is_lower_case)) =>
          IF SomeGroupOverflows(arg.identity, LowLetter)
          THEN /\ pc = "raised" /\ out = "none"
               /\ err = "struct.error: argument out of range"
               /\ err \notin ValidationErrors
          ELSE pc = "returned" /\ err = "none" /\ Len(out) = 32
    /\ op = "Identity.from_pub_key" =>
          /\ ~SomeGroupOverflows(out.identity, LowLetter)
          /\ out.back.err = "none"

\* a first group worth exactly 2^64 is refused by struct
C30_Witness ==
    /\ ToPubKeyCalled /\ pc = "raised" /\ ~arg.is_lower_case
    /\ arg.identity = GroupId(Zeros(8) \o <<1>>)
    /\ GroupOverflows(arg.identity, 0, 65)
    /\ err = "struct.error: argument out of range"

\* and one worth 2^64 - 1 gives eight bytes of 255
LargestGroupDecodes ==
    /\ ToPubKeyCalled /\ pc = "returned"
    /\ arg.identity = GroupId(Fill(8, 255))
    /\ out = Fill(8, 255) \o Zeros(24)

\* fourteen 'Z' overflow
AllZOverflows ==
    /\ ToPubKeyCalled /\ pc = "raised" /\ arg.identity = OverflowId
    /\ err = "struct.error: argument out of range"
====
